---- MODULE Spec2Model ----
(***************************************************************************)
(* Model of the vpinleaders-client screen streamers.                       *)
(*                                                                         *)
(*   streamer_linux.py    portal negotiation (RawPortalScreencast), the    *)
(*                        GStreamer appsink bridge                         *)
(*                        (GstPipeWireCallbackGrabber) and stream_wayland  *)
(*   streamer_mac.py      stream_screen (reconnecting transport loop)      *)
(*   streamer_windows.py  stream_windows (single connection)               *)
(*                                                                         *)
(* One process runs per behaviour; Init picks the platform variant.  A     *)
(* step of the model is what a coroutine does between two awaits, or one   *)
(* callback of the bus reader, of the event loop or of the pipeline        *)
(* thread.                                                                 *)
(***************************************************************************)
EXTENDS Integers, Sequences, FiniteSets, TLC

\* ---------------------------------------------------------------- bounds
\* samples the capture source produces in one run
MaxFrames == 3
\* largest portal response code the environment sends (0 = granted)
MaxCode == 1
\* transport failures after which the environment stops failing
MaxFailures == 2

\* ------------------------------------------------------ program constants
\* asyncio.Queue(maxsize=2)
QueueMaxSize == 2
\* asyncio.sleep(2) before a reconnect
ReconnectDelay == 2

\* the portal calls of one negotiation, in source order
Order == <<"CreateSession", "SelectSources", "Start", "OpenPipeWireRemote">>

\* request paths: step k waits on path k; path 0 is a path of no request
\* of this negotiation
Paths == 0..3
Codes == 0..MaxCode

\* value of the local `frame` before the first get_frame / when it is None
Unset == -1
NoFrame == 0

VARIABLES
    platform,   \* "linux" | "mac" | "windows"
    pc,         \* position of the main coroutine
    error,      \* exception that is propagating / ended the run ("none")
    wsOpen,     \* the ingest websocket is connected
    failures,   \* transport failures so far (capped by MaxFailures)
    elapsed,    \* seconds since the current asyncio.sleep(2) began
    connects,   \* connection attempts begun
    \* --- RawPortalScreencast
    fd_passing_enabled,
    step,       \* negotiation step in progress, 0 = none, 1..4 = Order[step]
    calls,      \* ScreenCast calls issued on the bus so far, in order
    handlers,   \* expected paths of the message handlers registered
    fut,        \* the future of the wait in progress
    resp,       \* resp[k]: what step k's wait returned
    outcome,    \* outcome[k]: how step k ended
    session,    \* session handle held by stream_wayland ("none" | "s1")
    closeCalls, \* Session.Close calls issued
    closeReply, \* reply to the Close call: "none" | "ok" | "error"
    dropped,    \* a Response reached the handler after its future was done
    \* --- GstPipeWireCallbackGrabber
    grabber,    \* "none" | "created"
    pipeline,   \* "none" | "READY" | "PLAYING" | "NULL"
    glib_loop,  \* "none" | "running" | "quit"
    running,    \* self._running
    eos,        \* the callback answered EOS: no further samples
    produced,   \* samples produced by the source so far
    scheduled,  \* push() callbacks waiting on the event loop (frames)
    queue,      \* self.queue
    stops,      \* stop() calls made
    run,        \* frames given to push() since the last removal by get_frame
    \* --- streaming loop locals and outputs
    frame,      \* local `frame`
    ok,         \* local `ok` of the last imencode
    sent,       \* local `sent` / `sent_frames`
    messages,   \* binary messages the websocket has accepted (frames)
    delivered,  \* frames get_frame has returned, in order
    \* --- the pure helpers (resize_to_max, build_ws_url), applied alone
    fn_in,      \* the arguments of the call
    fn_out,     \* what the call returned
    \* --- observations of the environment
    pw_fd,      \* the PipeWire descriptor: "none" | "open" | "closed"
    early,      \* steps whose granting Response arrived before the handler
    since_stats,\* whole seconds since `last_stats` / `last` was set
    lines,      \* diagnostic lines printed
    \* --- main.py: the score tray
    tray,       \* "off" | "startup" | "running": the __main__ block
    connected,  \* the score websocket is open
    now,        \* the clock, whole seconds since the epoch
    SEND_MODE,
    game_session_data,  \* rom -> player -> raw score
    last_game_end,      \* rom -> time.time() of the last accepted game_end
    ws_connected_at,    \* 0 (None) or the time on_ws_open ran
    _last_score_rom,
    _last_score_value,  \* 0 (None) or the score stored
    _hotkey_listener,   \* the global is not None
    listeners,  \* GlobalHotKeys listeners that are running
    sends,      \* send_score calls made
    last_call,  \* the arguments of the last send_score call, and its caller
    notices,    \* _on_hotkey_pressed has shown its "No Score" notification
    \* --- main.py: the two threads at _last_score_lock, statement by statement
    _last_score_lock,   \* "free" or the thread that holds it
    setter,     \* the websocket thread inside _set_last_score
    getter,     \* the hotkey thread inside _get_last_score
    written     \* the (rom, score) pairs _set_last_score was called with

connVars   == <<wsOpen, failures, elapsed, connects>>
portalVars == <<fd_passing_enabled, step, calls, handlers, fut, resp, outcome,
                session, closeCalls, closeReply, dropped>>
grabVars   == <<grabber, pipeline, glib_loop, running, eos, produced,
                scheduled, queue, stops, run>>
loopVars   == <<frame, ok, sent, messages, delivered>>
sessionVars  == <<game_session_data, last_game_end>>
lastVars     == <<_last_score_rom, _last_score_value>>
listenerVars == <<_hotkey_listener, listeners>>
callVars     == <<sends, last_call>>
lockVars     == <<_last_score_lock, setter, getter, written>>
trayVars   == <<tray, connected, now, SEND_MODE, ws_connected_at, sessionVars,
                lastVars, listenerVars, callVars, notices, lockVars>>
observed   == <<early, since_stats, lines, trayVars>>
aside      == <<fn_in, fn_out, observed>>
vars == <<platform, pc, error, connVars, portalVars, grabVars, loopVars,
          pw_fd, aside>>

\* ------------------------------------------------------------ initial state
\* ROM names and player ids in the score messages
Roms == {"afm", "mm"}
PlayerIds == {"1", "2"}
\* Python's None, and the rom/player key that is not in a dictionary
None == "None"
NoPlayer == <<>>
NoData == [present |-> FALSE, scores |-> [p \in PlayerIds |-> NoPlayer]]
\* time.time() when the process starts: at least 10 seconds after the epoch
Boot == 10
\* a thread that is not inside _set_last_score / _get_last_score
Idle == [pc |-> "idle", rom |-> None, score |-> 0]
\* no send_score call yet
NoCall == [rom |-> None, score |-> 0, by |-> None]

\* main.py is not running: the module-level assignments of lines 52-71
tray_off ==
    /\ tray = "off" /\ connected = FALSE /\ now = Boot
    /\ SEND_MODE = "automatic"
    /\ game_session_data = [r \in Roms |-> NoData]
    /\ last_game_end = [r \in Roms |-> 0]
    /\ ws_connected_at = 0
    /\ _last_score_rom = None /\ _last_score_value = 0
    /\ _hotkey_listener = FALSE /\ listeners = 0
    /\ sends = 0 /\ last_call = NoCall /\ notices = FALSE
    /\ _last_score_lock = "free"
    /\ setter = Idle /\ getter = Idle
    /\ written = {}

NoFut  == [state |-> "none", response |-> -1, results |-> FALSE,
           path |-> -1, expected |-> -1]
NoResp == [response |-> -1, results |-> FALSE, path |-> -1, expected |-> -1]

Init ==
    /\ platform \in {"linux", "mac", "windows"}
    /\ pc = "init"
    /\ error = "none"
    /\ wsOpen = FALSE
    /\ failures = 0
    /\ elapsed = 0
    /\ connects = 0
    /\ fd_passing_enabled = FALSE
    /\ step = 0
    /\ calls = <<>>
    /\ handlers = {}
    /\ fut = NoFut
    /\ resp = [k \in 1..3 |-> NoResp]
    /\ outcome = [k \in 1..4 |-> "none"]
    /\ session = "none"
    /\ closeCalls = 0
    /\ closeReply = "none"
    /\ dropped = FALSE
    /\ grabber = "none"
    /\ pipeline = "none"
    /\ glib_loop = "none"
    /\ running = FALSE
    /\ eos = FALSE
    /\ produced = 0
    /\ scheduled = <<>>
    /\ queue = <<>>
    /\ stops = 0
    /\ run = <<>>
    /\ frame = Unset
    /\ ok = FALSE
    /\ sent = 0
    /\ messages = <<>>
    /\ delivered = <<>>
    /\ fn_in = <<>>
    /\ fn_out = <<>>
    /\ pw_fd = "none"
    /\ early = {}
    /\ since_stats = 0
    /\ lines = 0
    /\ tray_off

\* ============================================================ helpers
\* what no negotiation step touches
negIdle == <<platform, aside, pw_fd, dropped, failures, elapsed, connects,
             fd_passing_enabled, closeReply, eos, produced, scheduled, queue,
             run, loopVars>>

Set(f, k, v) == [f EXCEPT ![k] = v]

\* variables a raised exception or the finally block may touch
exitVars == <<pc, error, wsOpen, closeCalls, grabber, pipeline, glib_loop,
              running, stops>>

\* a stop() that leaves the running flag as it is
stop_keeps_running(p, gl) ==
    /\ running' = running
    /\ pipeline' = IF p # "none" THEN "NULL" ELSE p
    /\ glib_loop' = IF gl # "none" THEN "quit" ELSE gl
    /\ stops' = stops + 1

\* GstPipeWireCallbackGrabber.stop applied to an adapter whose pipeline is p
\* and whose GLib loop is gl
stop(p, gl) ==
    /\ running' = FALSE
    /\ pipeline' = IF p # "none" THEN "NULL" ELSE p
    /\ glib_loop' = IF gl # "none" THEN "quit" ELSE gl
    /\ stops' = stops + 1

\* the finally block closing the session only on the path that stops an
\* adapter
finally_block_adapter_only(err, g, p, gl) ==
    /\ error' = err
    /\ grabber' = g
    /\ IF g # "none"
          THEN stop(p, gl) /\ closeCalls' = closeCalls + 1
          ELSE /\ running' = running
               /\ pipeline' = p
               /\ glib_loop' = gl
               /\ stops' = stops
               /\ closeCalls' = closeCalls
    /\ wsOpen' = wsOpen
    /\ pc' = "closing"

\* the finally block of stream_wayland, up to the await of the Close call;
\* g, p, gl are the adapter, its pipeline and its loop when the block runs
finally_block(err, g, p, gl) ==
    /\ error' = err
    /\ grabber' = g
    /\ IF g # "none"
          THEN stop(p, gl)
          ELSE /\ running' = running
               /\ pipeline' = p
               /\ glib_loop' = gl
               /\ stops' = stops
    /\ closeCalls' = closeCalls + 1
    /\ wsOpen' = wsOpen
    /\ pc' = "closing"

\* an exception leaves `async with websockets.connect(...)` and stream_wayland
propagate(err) ==
    /\ error' = err
    /\ wsOpen' = FALSE
    /\ pc' = "exited"
    /\ UNCHANGED <<closeCalls, grabber, pipeline, glib_loop, running, stops>>

\* an exception raised in stream_wayland: inside the try block once
\* create_session has returned the session handle, outside it before
Raise(err, g, p, gl) ==
    IF session # "none" THEN finally_block(err, g, p, gl) ELSE propagate(err)

\* the response test left out: every response counts as granted
response_ok_any(r) == TRUE

\* the `resp["response"] != 0` test of create_session/select_sources/start
response_ok(r) == r.response = 0

\* a handler without the `if not fut.done()` test: every Response signal
\* stores its result
handler_no_done_test(f, path, code, results) ==
    [state |-> "done", response |-> code, results |-> results,
     path |-> path, expected |-> f.expected]

\* the handler closure of wait_request_response applied to one Response
\* signal: the first signal resolves the future, whatever its path
handler(f, path, code, results) ==
    IF f.state = "pending"
       THEN [state |-> "done", response |-> code, results |-> results,
             path |-> path, expected |-> f.expected]
       ELSE f

\* ================================================= stream_wayland (Linux)
stream_wayland_begin ==
    /\ platform = "linux" /\ pc = "init"
    /\ \E wayland \in BOOLEAN :
          IF wayland
             THEN pc' = "ws_connect" /\ connects' = connects + 1
             ELSE pc' = "exited" /\ connects' = connects
    /\ UNCHANGED <<platform, aside, pw_fd, error, wsOpen, failures, elapsed,
                   portalVars, grabVars, loopVars>>

ws_connected ==
    /\ platform = "linux" /\ pc = "ws_connect"
    /\ wsOpen' = TRUE
    /\ pc' = "bus_connect"
    /\ UNCHANGED <<platform, aside, pw_fd, error, failures, elapsed, connects,
                   portalVars, grabVars, loopVars>>

ws_connect_failed ==
    /\ platform = "linux" /\ pc = "ws_connect"
    /\ failures < MaxFailures
    /\ failures' = failures + 1
    /\ propagate("ConnectionError")
    /\ UNCHANGED <<platform, aside, pw_fd,
                   elapsed, connects, fd_passing_enabled,
                   step, calls, handlers, fut, resp, outcome, session,
                   closeReply, dropped, eos, produced, scheduled, queue, run,
                   loopVars>>

\* RawPortalScreencast.connect, then create_session up to its bus call
connect ==
    /\ platform = "linux" /\ pc = "bus_connect"
    /\ \E fd \in BOOLEAN : fd_passing_enabled' = fd
    /\ calls' = Append(calls, Order[1])
    /\ step' = 1
    /\ pc' = "call"
    /\ UNCHANGED <<platform, aside, pw_fd, error, connVars, handlers, fut, resp,
                   outcome, session, closeCalls, closeReply, dropped,
                   grabVars, loopVars>>

\* the method-return of a CreateSession/SelectSources/Start call arrives:
\* call() raises on an error reply, else wait_request_response registers its
\* handler and awaits the future
wait_request_response ==
    /\ platform = "linux" /\ pc = "call" /\ step \in 1..3
    /\ \E reply \in {"path", "error"} :
          IF reply = "error"
             THEN /\ outcome' = Set(outcome, step, "dbus_error")
                  /\ Raise("RuntimeError", grabber, pipeline, glib_loop)
                  /\ UNCHANGED <<handlers, fut>>
             ELSE /\ handlers' = handlers \cup {step}
                  /\ fut' = [NoFut EXCEPT !.state = "pending",
                                          !.expected = step]
                  /\ pc' = "wait"
                  /\ UNCHANGED <<outcome, error, wsOpen, closeCalls, grabber,
                                 pipeline, glib_loop, running, stops>>
    /\ UNCHANGED <<negIdle, step, calls, resp, session>>

\* the bus reader hands one Response signal to the registered handler; the
\* signal is on the path of a request already issued or on path 0
deliver_signal ==
    /\ platform = "linux" /\ handlers # {}
    /\ \E path \in Paths, code \in Codes, results \in BOOLEAN :
          /\ path <= step
          /\ fut' = handler(fut, path, code, results)
    /\ dropped' = (dropped \/ fut.state = "done")
    /\ UNCHANGED <<platform, aside, pw_fd,
                   pc, error, connVars, fd_passing_enabled,
                   step, calls, handlers, resp, outcome, session, closeCalls,
                   closeReply, grabVars, loopVars>>

\* a timeout that re-issues the call of the step once instead of raising
wait_timeout_retry ==
    /\ platform = "linux" /\ pc = "wait" /\ fut.state = "pending"
    /\ handlers' = handlers \ {step}
    /\ fut' = NoFut
    /\ outcome' = Set(outcome, step, "timeout")
    /\ IF outcome[step] = "none"
          THEN /\ calls' = Append(calls, Order[step])
               /\ pc' = "call"
               /\ UNCHANGED <<error, wsOpen, closeCalls, grabber, pipeline,
                              glib_loop, running, stops>>
          ELSE /\ Raise("TimeoutError", grabber, pipeline, glib_loop)
               /\ UNCHANGED calls
    /\ UNCHANGED <<negIdle, step, resp, session>>

\* asyncio.wait_for gives up: the handler is removed, TimeoutError is raised
wait_timeout ==
    /\ platform = "linux" /\ pc = "wait" /\ fut.state = "pending"
    /\ handlers' = handlers \ {step}
    /\ fut' = NoFut
    /\ outcome' = Set(outcome, step, "timeout")
    /\ Raise("TimeoutError", grabber, pipeline, glib_loop)
    /\ UNCHANGED <<negIdle, step, calls, resp, session>>

\* a wait that returns without the finally block: the handler stays
WaitReturns_keeps_handler(k) ==
    /\ platform = "linux" /\ pc = "wait" /\ step = k /\ fut.state = "done"
    /\ handlers' = handlers
    /\ resp' = Set(resp, k, [response |-> fut.response,
                             results |-> fut.results,
                             path |-> fut.path, expected |-> fut.expected])
    /\ fut' = NoFut

\* the wait of step k returns r: handler removed, result kept
WaitReturns(k) ==
    /\ platform = "linux" /\ pc = "wait" /\ step = k /\ fut.state = "done"
    /\ handlers' = handlers \ {k}
    /\ resp' = Set(resp, k, [response |-> fut.response,
                             results |-> fut.results,
                             path |-> fut.path, expected |-> fut.expected])
    /\ fut' = NoFut

\* step k ends with the RuntimeError `what`
StepFails(k, what) ==
    /\ outcome' = Set(outcome, k, what)
    /\ Raise("RuntimeError", grabber, pipeline, glib_loop)
    /\ UNCHANGED <<step, calls>>

\* step k succeeded and the call of step k + 1 is issued
NextCall(k) ==
    /\ outcome' = Set(outcome, k, "ok")
    /\ calls' = Append(calls, Order[k + 1])
    /\ step' = k + 1
    /\ pc' = "call"
    /\ UNCHANGED <<error, wsOpen, closeCalls, grabber, pipeline, glib_loop,
                   running, stops>>

create_session ==
    /\ WaitReturns(1)
    /\ IF ~response_ok(fut)
          THEN StepFails(1, "denied") /\ UNCHANGED session
          ELSE IF ~fut.results
                  THEN StepFails(1, "no_handle") /\ UNCHANGED session
                  ELSE session' = "s1" /\ NextCall(1)
    /\ UNCHANGED negIdle

select_sources ==
    /\ WaitReturns(2)
    /\ IF ~response_ok(fut)
          THEN StepFails(2, "denied")
          ELSE NextCall(2)
    /\ UNCHANGED <<negIdle, session>>

\* open_pipewire_remote going on to its bus call whatever connect() found
fd_check_skipped(enabled) == TRUE

\* the `if not self.fd_passing_enabled: raise` test at the top of
\* open_pipewire_remote: the call goes on only with descriptor passing
fd_check(enabled) == enabled

\* RawPortalScreencast.start, then open_pipewire_remote up to its bus call
start ==
    /\ WaitReturns(3)
    /\ IF ~response_ok(fut)
          THEN StepFails(3, "denied")
          ELSE IF ~fut.results
                  THEN StepFails(3, "no_streams")
                  ELSE IF ~fd_check(fd_passing_enabled)
                          THEN /\ outcome' = [outcome EXCEPT
                                                 ![3] = "ok",
                                                 ![4] = "no_fd_passing"]
                               /\ Raise("RuntimeError", grabber, pipeline,
                                        glib_loop)
                               /\ UNCHANGED <<step, calls>>
                          ELSE NextCall(3)
    /\ UNCHANGED <<negIdle, session>>

\* a reply without descriptors taken as a reply with one
no_unix_fds_ignored(reply) == FALSE

\* the `if not unix_fds: raise` test on the reply of OpenPipeWireRemote
no_unix_fds(reply) == reply = "no_fds"

\* the reply of OpenPipeWireRemote (or its 45 s timeout); on success the
\* adapter is created and GstPipeWireCallbackGrabber.start runs up to
\* set_state(PLAYING)
open_pipewire_remote ==
    /\ platform = "linux" /\ pc = "call" /\ step = 4
    /\ \E reply \in {"fd", "no_fds", "error", "timeout"},
          gst \in {"parse_error", "no_sink", "playing"} :
          IF reply \in {"error", "timeout"} \/ no_unix_fds(reply)
             THEN /\ gst = "playing"
                  /\ pw_fd' = pw_fd
                  /\ outcome' = Set(outcome, 4, reply)
                  /\ Raise(IF reply = "timeout" THEN "TimeoutError"
                                                ELSE "RuntimeError",
                           grabber, pipeline, glib_loop)
             ELSE /\ outcome' = Set(outcome, 4, "ok")
                  /\ pw_fd' = IF reply = "fd" THEN "open" ELSE pw_fd
                  /\ CASE gst = "parse_error" ->
                            Raise("GLibError", "created", "none", "none")
                       [] gst = "no_sink" ->
                            Raise("RuntimeError", "created", "READY", "none")
                       [] gst = "playing" ->
                            /\ grabber' = "created"
                            /\ pipeline' = "PLAYING"
                            /\ pc' = "grabber_start"
                            /\ UNCHANGED <<error, wsOpen, closeCalls,
                                           glib_loop, running, stops>>
    /\ UNCHANGED <<platform, aside, dropped, failures, elapsed, connects,
                   fd_passing_enabled, closeReply, eos, produced, scheduled,
                   queue, run, loopVars, step, calls, handlers, fut, resp,
                   session>>

\* GstPipeWireCallbackGrabber.start after set_state(PLAYING): the GLib loop
\* and its thread, then stream_wayland reaches its first get_frame
grabber_start ==
    /\ platform = "linux" /\ pc = "grabber_start"
    /\ glib_loop' = "running"
    /\ running' = TRUE
    /\ pc' = "get_frame"
    /\ UNCHANGED <<platform, aside, pw_fd, error, connVars, portalVars, grabber,
                   pipeline, eos, produced, scheduled, queue, stops, run,
                   loopVars>>

\* ------------------------------------------- adapter callback and bridge
\* asyncio.Queue.get_nowait on a non-empty queue: what is left
get_nowait(q) == Tail(q)

\* the newest frame handed out instead of the oldest
queue_get_newest(q) == q[Len(q)]

\* the frame queue.get() hands out
queue_get(q) == Head(q)

\* push() without the eviction: put_nowait drops the frame on a full queue
push_no_evict(q, f) ==
    IF Len(q) >= QueueMaxSize THEN q ELSE Append(q, f)

\* the push() closure of _on_new_sample: evict the oldest frame when the
\* queue is full, then put_nowait, which drops the frame (QueueFull) when the
\* queue is still full
push(q, f) ==
    LET q1 == IF Len(q) >= QueueMaxSize THEN get_nowait(q) ELSE q
    IN  IF Len(q1) >= QueueMaxSize THEN q1 ELSE Append(q1, f)

\* a callback that puts the frame on the queue itself and so has to wait
\* while the queue is full
_on_new_sample_put ==
    /\ platform = "linux" /\ pipeline = "PLAYING" /\ ~eos
    /\ produced < MaxFrames
    /\ IF ~running
          THEN eos' = TRUE /\ UNCHANGED <<produced, queue, run>>
          ELSE /\ Len(queue) < QueueMaxSize
               /\ \E sample \in {"frame", "no_sample", "map_failed"} :
                     IF sample = "frame"
                        THEN /\ queue' = Append(queue, produced + 1)
                             /\ run' = Append(run, produced + 1)
                        ELSE UNCHANGED <<queue, run>>
               /\ produced' = produced + 1
               /\ eos' = eos
    /\ UNCHANGED <<platform, aside, pw_fd,
                   pc, error, connVars, portalVars, grabber,
                   pipeline, glib_loop, running, scheduled, stops, loopVars>>

\* one new-sample callback on the pipeline thread
_on_new_sample ==
    /\ platform = "linux" /\ pipeline = "PLAYING" /\ ~eos
    /\ produced < MaxFrames
    /\ IF ~running
          THEN eos' = TRUE /\ UNCHANGED <<produced, scheduled>>
          ELSE /\ \E sample \in {"frame", "no_sample", "map_failed"} :
                     scheduled' = IF sample = "frame"
                                     THEN Append(scheduled, produced + 1)
                                     ELSE scheduled
               /\ produced' = produced + 1
               /\ eos' = eos
    /\ UNCHANGED <<platform, aside, pw_fd,
                   pc, error, connVars, portalVars, grabber,
                   pipeline, glib_loop, running, queue, stops, run, loopVars>>

\* the event loop runs the oldest scheduled push(); it runs nothing once
\* asyncio.run has returned nor while its thread is inside stop()
run_push ==
    /\ platform = "linux" /\ scheduled # <<>>
    /\ pc \notin {"exited", "stop_pipeline", "stop_loop"}
    /\ queue' = push(queue, Head(scheduled))
    /\ run' = Append(run, Head(scheduled))
    /\ scheduled' = Tail(scheduled)
    /\ UNCHANGED <<platform, aside, pw_fd,
                   pc, error, connVars, portalVars, grabber,
                   pipeline, glib_loop, running, eos, produced, stops,
                   loopVars>>

\* --------------------------------------------- streaming loop (Linux)
\* the `if ok:` test left out: the encoder's output is sent either way
after_encode_always_send(enc) == "send"

\* where the loop goes after imencode returned enc
after_encode(enc) == IF enc THEN "send" ELSE "get_frame"

\* get_frame returns a frame; resize, encode, and ws.send when ok
get_frame ==
    /\ platform = "linux" /\ pc = "get_frame" /\ queue # <<>>
    /\ frame' = queue_get(queue)
    /\ queue' = get_nowait(queue)
    /\ run' = <<>>
    /\ delivered' = Append(delivered, queue_get(queue))
    /\ \E enc \in BOOLEAN : ok' = enc /\ pc' = after_encode(enc)
    /\ UNCHANGED <<platform, aside, pw_fd, error, connVars, portalVars, grabber,
                   pipeline, glib_loop, running, eos, produced, scheduled,
                   stops, sent, messages>>

\* None taken as the end of the stream: the loop is left by an exception
get_frame_timeout_ends ==
    /\ platform = "linux" /\ pc = "get_frame" /\ queue = <<>>
    /\ frame' = NoFrame
    /\ Raise("TimeoutError", grabber, pipeline, glib_loop)
    /\ UNCHANGED <<platform, aside, pw_fd, failures, elapsed, connects,
                   fd_passing_enabled, step, calls, handlers, fut, resp,
                   outcome, session, closeReply, dropped, eos, produced,
                   scheduled, queue, run, ok, sent, messages, delivered>>

\* get_frame's wait_for times out on the empty queue: None, `continue`
get_frame_timeout ==
    /\ platform = "linux" /\ pc = "get_frame" /\ queue = <<>>
    /\ frame' = NoFrame
    /\ UNCHANGED <<platform, aside, pw_fd,
                   pc, error, connVars, portalVars, grabVars,
                   ok, sent, messages, delivered>>

\* a send that completes without `sent += 1`
send_done_uncounted ==
    /\ platform = "linux" /\ pc = "send"
    /\ messages' = Append(messages, frame)
    /\ sent' = sent
    /\ pc' = "get_frame"
    /\ UNCHANGED <<platform, aside, pw_fd,
                   error, connVars, portalVars, grabVars,
                   frame, ok, delivered>>

\* await ws.send(enc.tobytes()) returns; sent += 1
send_done ==
    /\ platform = "linux" /\ pc = "send"
    /\ messages' = Append(messages, frame)
    /\ sent' = sent + 1
    /\ pc' = "get_frame"
    /\ UNCHANGED <<platform, aside, pw_fd,
                   error, connVars, portalVars, grabVars,
                   frame, ok, delivered>>

send_failed ==
    /\ platform = "linux" /\ pc = "send"
    /\ failures < MaxFailures
    /\ failures' = failures + 1
    /\ Raise("ConnectionClosed", grabber, pipeline, glib_loop)
    /\ UNCHANGED <<platform, aside, pw_fd,
                   elapsed, connects, fd_passing_enabled,
                   step, calls, handlers, fut, resp, outcome, session,
                   closeReply, dropped, eos, produced, scheduled, queue, run,
                   loopVars>>

\* the reply of Session.Close: close_session swallows an error, the pending
\* exception leaves stream_wayland and the process ends
close_session ==
    /\ platform = "linux" /\ pc = "closing"
    /\ \E reply \in {"ok", "error"} : closeReply' = reply
    /\ wsOpen' = FALSE
    /\ pc' = "exited"
    /\ UNCHANGED <<platform, aside, pw_fd, error, failures, elapsed, connects,
                   fd_passing_enabled, step, calls, handlers, fut, resp,
                   outcome, session, closeCalls, dropped, grabVars,
                   loopVars>>

\* the main task is cancelled (once) while it is suspended in an await
cancel ==
    /\ platform = "linux"
    /\ pc \in {"ws_connect", "bus_connect", "call", "wait", "get_frame",
               "send", "closing"}
    /\ error # "CancelledError"
    /\ handlers' = {}
    /\ fut' = NoFut
    /\ IF pc = "closing"
          THEN propagate("CancelledError")
          ELSE Raise("CancelledError", grabber, pipeline, glib_loop)
    /\ UNCHANGED <<platform, aside, pw_fd, failures, elapsed, connects,
                   fd_passing_enabled, step, calls, resp, outcome, session,
                   closeReply, dropped, eos, produced, scheduled, queue, run,
                   loopVars>>

\* ===================================================== stream_screen (macOS)
stream_screen_begin ==
    /\ platform = "mac" /\ pc = "init"
    /\ pc' = "connect"
    /\ connects' = connects + 1
    /\ UNCHANGED <<platform, aside, pw_fd, error, wsOpen, failures, elapsed,
                   portalVars, grabVars, loopVars>>

stream_screen_connected ==
    /\ platform = "mac" /\ pc = "connect"
    /\ wsOpen' = TRUE
    /\ pc' = "capture"
    /\ UNCHANGED <<platform, aside, pw_fd, error, failures, elapsed, connects,
                   portalVars, grabVars, loopVars>>

\* `except Exception`: print, then asyncio.sleep(2)
stream_screen_except ==
    /\ failures' = failures + 1
    /\ wsOpen' = FALSE
    /\ elapsed' = 0
    /\ pc' = "sleep"

stream_screen_connect_failed ==
    /\ platform = "mac" /\ pc = "connect"
    /\ failures < MaxFailures
    /\ stream_screen_except
    /\ UNCHANGED <<platform, aside, pw_fd,
                   error, connects, portalVars, grabVars,
                   loopVars>>

\* one iteration up to ws.send: grab, resize, encode
stream_screen_capture ==
    /\ platform = "mac" /\ pc = "capture"
    /\ produced < MaxFrames
    /\ produced' = produced + 1
    /\ frame' = produced + 1
    /\ \E enc \in BOOLEAN : ok' = enc /\ pc' = IF ~enc THEN "capture"
                                                      ELSE "send"
    /\ UNCHANGED <<platform, aside, pw_fd, error, connVars, portalVars, grabber,
                   pipeline, glib_loop, running, eos, scheduled, queue, stops,
                   run, sent, messages, delivered>>

\* ws.send returned; pacing sleep when time is left in the frame interval
stream_screen_sent ==
    /\ platform = "mac" /\ pc = "send"
    /\ messages' = Append(messages, frame)
    /\ \E sleep_for \in BOOLEAN : pc' = IF sleep_for THEN "pace" ELSE "capture"
    /\ UNCHANGED <<platform, aside, pw_fd,
                   error, connVars, portalVars, grabVars,
                   frame, ok, sent, delivered>>

stream_screen_send_failed ==
    /\ platform = "mac" /\ pc = "send"
    /\ failures < MaxFailures
    /\ stream_screen_except
    /\ UNCHANGED <<platform, aside, pw_fd,
                   error, connects, portalVars, grabVars,
                   loopVars>>

stream_screen_paced ==
    /\ platform = "mac" /\ pc = "pace"
    /\ pc' = "capture"
    /\ UNCHANGED <<platform, aside, pw_fd,
                   error, connVars, portalVars, grabVars,
                   loopVars>>

\* one second of asyncio.sleep(2) passes
tick ==
    /\ pc = "sleep" /\ elapsed < ReconnectDelay
    /\ elapsed' = elapsed + 1
    /\ UNCHANGED <<platform, aside, pw_fd,
                   pc, error, wsOpen, failures, connects,
                   portalVars, grabVars, loopVars>>

\* asyncio.sleep(2) is over: the outer loop connects again
stream_screen_reconnect ==
    /\ platform = "mac" /\ pc = "sleep" /\ elapsed >= ReconnectDelay
    /\ pc' = "connect"
    /\ connects' = connects + 1
    /\ UNCHANGED <<platform, aside, pw_fd, error, wsOpen, failures, elapsed,
                   portalVars, grabVars, loopVars>>

\* ================================================= stream_windows (Windows)
stream_windows_begin ==
    /\ platform = "windows" /\ pc = "init"
    /\ pc' = "connect"
    /\ connects' = connects + 1
    /\ UNCHANGED <<platform, aside, pw_fd, error, wsOpen, failures, elapsed,
                   portalVars, grabVars, loopVars>>

stream_windows_connected ==
    /\ platform = "windows" /\ pc = "connect"
    /\ wsOpen' = TRUE
    /\ pc' = "capture"
    /\ UNCHANGED <<platform, aside, pw_fd, error, failures, elapsed, connects,
                   portalVars, grabVars, loopVars>>

\* nothing catches the exception: it leaves stream_windows and asyncio.run
stream_windows_raise(err) ==
    /\ failures' = failures + 1
    /\ error' = err
    /\ wsOpen' = FALSE
    /\ pc' = "exited"

stream_windows_connect_failed ==
    /\ platform = "windows" /\ pc = "connect"
    /\ failures < MaxFailures
    /\ stream_windows_raise("ConnectionError")
    /\ UNCHANGED <<platform, aside, pw_fd,
                   elapsed, connects, portalVars, grabVars,
                   loopVars>>

\* one iteration up to ws.send; a failed encode goes on to the pacing sleep
stream_windows_capture ==
    /\ platform = "windows" /\ pc = "capture"
    /\ produced < MaxFrames
    /\ produced' = produced + 1
    /\ frame' = produced + 1
    /\ \E enc \in BOOLEAN, sleep_time \in BOOLEAN :
          /\ ok' = enc
          /\ enc => sleep_time
          /\ pc' = IF enc THEN "send"
                   ELSE IF sleep_time THEN "pace" ELSE "capture"
    /\ UNCHANGED <<platform, aside, pw_fd, error, connVars, portalVars, grabber,
                   pipeline, glib_loop, running, eos, scheduled, queue, stops,
                   run, sent, messages, delivered>>

stream_windows_sent ==
    /\ platform = "windows" /\ pc = "send"
    /\ messages' = Append(messages, frame)
    /\ sent' = sent + 1
    /\ \E sleep_time \in BOOLEAN :
          pc' = IF sleep_time THEN "pace" ELSE "capture"
    /\ UNCHANGED <<platform, aside, pw_fd,
                   error, connVars, portalVars, grabVars,
                   frame, ok, delivered>>

stream_windows_send_failed ==
    /\ platform = "windows" /\ pc = "send"
    /\ failures < MaxFailures
    /\ stream_windows_raise("ConnectionClosed")
    /\ UNCHANGED <<platform, aside, pw_fd,
                   elapsed, connects, portalVars, grabVars,
                   loopVars>>

stream_windows_paced ==
    /\ platform = "windows" /\ pc = "pace"
    /\ pc' = "capture"
    /\ UNCHANGED <<platform, aside, pw_fd,
                   error, connVars, portalVars, grabVars,
                   loopVars>>

\* ------------------------------------------------------------ exit status
\* asyncio.run(main()) at the bottom of the script: 0 when main returns, 1
\* when an exception leaves it (the interpreter prints the traceback)
exit_status == IF error = "none" THEN 0 ELSE 1

\* ============================================================ specification
Next ==
    \/ stream_wayland_begin
    \/ ws_connected
    \/ ws_connect_failed
    \/ connect
    \/ wait_request_response
    \/ deliver_signal
    \/ wait_timeout
    \/ create_session
    \/ select_sources
    \/ start
    \/ open_pipewire_remote
    \/ grabber_start
    \/ _on_new_sample
    \/ run_push
    \/ get_frame
    \/ get_frame_timeout
    \/ send_done
    \/ send_failed
    \/ close_session
    \/ cancel
    \/ stream_screen_begin
    \/ stream_screen_connected
    \/ stream_screen_connect_failed
    \/ stream_screen_capture
    \/ stream_screen_sent
    \/ stream_screen_send_failed
    \/ stream_screen_paced
    \/ tick
    \/ stream_screen_reconnect
    \/ stream_windows_begin
    \/ stream_windows_connected
    \/ stream_windows_connect_failed
    \/ stream_windows_capture
    \/ stream_windows_sent
    \/ stream_windows_send_failed
    \/ stream_windows_paced

Spec == Init /\ [][Next]_vars

\* ============================================== resize (all three variants)
\* Python floats are IEEE-754 binary64.  A positive float is kept as
\* [e, m]: m = <<m0, m1, m2>> its 53 significand bits in limbs of 17, 18
\* and 18 bits (the first bit of m0 is always 1) and e the power of two of
\* that first bit, so that the value is (m0 * 2^36 + m1 * 2^18 + m2) *
\* 2^(e - 52).  Every intermediate number stays below 2^31.
Limb == 2^18
TopLimb == 2^17

\* largest frame side and largest configured maximum tried
MaxDim == 4

\* x.bit_length() of an int 1 <= x < 2^30
bit_length(x) == CHOOSE k \in 1..30 : 2^(k - 1) <= x /\ x < 2^k

\* round-half-to-even: the 53 bits m of a result whose first bit has the
\* power e, followed by the bit guard and, if sticky, by further non-zero
\* bits
round_half_even(e, m, guard, sticky) ==
    LET up == guard = 1 /\ (sticky \/ m[3] % 2 = 1)
        c3 == IF up THEN m[3] + 1 ELSE m[3]
        c2 == m[2] + c3 \div Limb
        c1 == m[1] + c2 \div Limb
    IN  IF c1 = TopLimb
        THEN [e |-> e + 1, m |-> <<TopLimb \div 2, 0, 0>>]
        ELSE [e |-> e, m |-> <<c1, c2 % Limb, c3 % Limb>>]

\* a / b of two ints 1 <= a, b < 2^12 (int.__truediv__, correctly rounded):
\* 54 bits of the quotient by long division, 18 at a time, then rounding
truediv(a, b) ==
    LET la  == bit_length(a)
        lb  == bit_length(b)
        \* scale both to 12 bits, then a once more if it is the smaller
        a12 == a * 2^(12 - la)
        b12 == b * 2^(12 - lb)
        low == IF a12 < b12 THEN 1 ELSE 0
        num == a12 * 2^low
        e   == (la - lb) - low
        \* num / b12 is in [1, 2)
        q0  == (num * 2^17) \div b12
        r0  == (num * 2^17) % b12
        q1  == (r0 * Limb) \div b12
        r1  == (r0 * Limb) % b12
        q2  == (r1 * Limb) \div b12
        r2  == (r1 * Limb) % b12
    IN  round_half_even(e,
                        <<q0 \div 2,
                          (q0 % 2) * TopLimb + q1 \div 2,
                          (q1 % 2) * TopLimb + q2 \div 2>>,
                        q2 % 2, r2 # 0)

\* n * x of an int 1 <= n < 2^12 and a float x (float.__rmul__: n is
\* converted exactly, the exact product is rounded once)
mul(n, x) ==
    LET t3 == x.m[3] * n
        t2 == x.m[2] * n + t3 \div Limb
        t1 == x.m[1] * n + t2 \div Limb
        p2 == t2 % Limb
        p3 == t3 % Limb
        \* the product is t1, p2, p3 and has s bits too many
        s    == bit_length(t1) - 17
        cut  == 2^s
        lost == p3 % cut
    IN  IF s = 0 THEN [e |-> x.e, m |-> <<t1, p2, p3>>]
        ELSE round_half_even(x.e + s,
                             <<t1 \div cut,
                               (t1 % cut) * (Limb \div cut) + p2 \div cut,
                               (p2 % cut) * (Limb \div cut) + p3 \div cut>>,
                             lost \div (cut \div 2),
                             lost % (cut \div 2) # 0)

\* int(x) of a float 0 < x < 2^17: truncation
int_of(x) == IF x.e < 0 THEN 0 ELSE x.m[1] \div 2^(16 - x.e)

\* x < y of two positive floats
lt(x, y) ==
    \/ x.e < y.e
    \/ /\ x.e = y.e
       /\ \/ x.m[1] < y.m[1]
          \/ x.m[1] = y.m[1] /\ x.m[2] < y.m[2]
          \/ x.m[1] = y.m[1] /\ x.m[2] = y.m[2] /\ x.m[3] < y.m[3]

\* the literal 1.0
One == [e |-> 0, m |-> <<TopLimb \div 2, 0, 0>>]

\* min(a, b, c): the first of the smallest
min(a, b, c) ==
    LET ab == IF lt(b, a) THEN b ELSE a
    IN  IF lt(c, ab) THEN c ELSE ab

max(a, b) == IF a >= b THEN a ELSE b

\* what a resize call gives back: the very frame it was given, a new frame
\* of the given size, or the cv2.error of a dsize with a side of 0
same_frame(w, h) == [kind |-> "same", w |-> w, h |-> h]
cv2_resize(w, h) ==
    IF w <= 0 \/ h <= 0 THEN [kind |-> "cv2.error", w |-> w, h |-> h]
    ELSE [kind |-> "resized", w |-> w, h |-> h]

\* streamer_linux.py
resize_to_max(w, h, maxw, maxh) ==
    LET scale == min(truediv(maxw, w), truediv(maxh, h), One)
    IN  IF ~lt(scale, One) THEN same_frame(w, h)
        ELSE cv2_resize(max(2, int_of(mul(w, scale))),
                        max(2, int_of(mul(h, scale))))

\* streamer_windows.py
resize_to_max_windows(w, h, maxw, maxh) ==
    LET scale == min(truediv(maxw, w), truediv(maxh, h), One)
    IN  IF ~lt(scale, One) THEN same_frame(w, h)
        ELSE cv2_resize(int_of(mul(w, scale)), int_of(mul(h, scale)))

\* streamer_mac.py
resize_if_needed(w, h, max_width, max_height) ==
    LET scale == min(truediv(max_width, w), truediv(max_height, h), One)
    IN  IF ~lt(scale, One) THEN same_frame(w, h)
        ELSE cv2_resize(int_of(mul(w, scale)), int_of(mul(h, scale)))

\* the variables of the streamers in the state Init gives them: the process
\* has not begun to stream
not_streaming ==
    /\ error = "none" /\ wsOpen = FALSE /\ failures = 0 /\ elapsed = 0
    /\ connects = 0 /\ fd_passing_enabled = FALSE /\ step = 0
    /\ calls = <<>> /\ handlers = {} /\ fut = NoFut
    /\ resp = [k \in 1..3 |-> NoResp] /\ outcome = [k \in 1..4 |-> "none"]
    /\ session = "none" /\ closeCalls = 0 /\ closeReply = "none"
    /\ dropped = FALSE /\ pipeline = "none"
    /\ glib_loop = "none" /\ running = FALSE /\ eos = FALSE /\ produced = 0
    /\ scheduled = <<>> /\ queue = <<>> /\ stops = 0 /\ run = <<>>
    /\ frame = Unset /\ ok = FALSE /\ sent = 0 /\ messages = <<>>
    /\ delivered = <<>>
    /\ pw_fd = "none" /\ early = {} /\ since_stats = 0 /\ lines = 0
    /\ tray_off

streamVars == <<error, connVars, portalVars, grabVars, loopVars, pw_fd>>

\* the frame sizes and maxima tried: every small one, and the common case
\* of a 1920x1080 monitor with the defaults --maxw 1280 --maxh 720
Sizes ==
    [w : 1..MaxDim, h : 1..MaxDim, maxw : 1..MaxDim, maxh : 1..MaxDim]
    \cup {[w |-> 1920, h |-> 1080, maxw |-> 1280, maxh |-> 720]}

InitResize ==
    /\ platform \in {"linux", "mac", "windows"}
    /\ pc = "resize"
    /\ fn_in \in Sizes
    /\ fn_out = <<>>
    /\ grabber = "none"
    /\ not_streaming

\* frame = resize_to_max(frame, maxw, maxh) in stream_wayland
call_resize_to_max ==
    /\ platform = "linux" /\ pc = "resize"
    /\ fn_out' = resize_to_max(fn_in.w, fn_in.h, fn_in.maxw, fn_in.maxh)
    /\ pc' = "resized"
    /\ UNCHANGED <<platform, fn_in, observed, streamVars>>

\* frame = resize_to_max(frame, maxw, maxh) in stream_windows
call_resize_to_max_windows ==
    /\ platform = "windows" /\ pc = "resize"
    /\ fn_out' = resize_to_max_windows(fn_in.w, fn_in.h, fn_in.maxw,
                                       fn_in.maxh)
    /\ pc' = "resized"
    /\ UNCHANGED <<platform, fn_in, observed, streamVars>>

\* frame = resize_if_needed(frame, max_width, max_height) in stream_screen
call_resize_if_needed ==
    /\ platform = "mac" /\ pc = "resize"
    /\ fn_out' = resize_if_needed(fn_in.w, fn_in.h, fn_in.maxw, fn_in.maxh)
    /\ pc' = "resized"
    /\ UNCHANGED <<platform, fn_in, observed, streamVars>>

NextResize ==
    \/ call_resize_to_max
    \/ call_resize_to_max_windows
    \/ call_resize_if_needed

SpecResize == InitResize /\ [][NextResize]_vars

\* ===================================== GstPipeWireCallbackGrabber, by itself
\* One adapter instance and a caller that calls start() and stop() on it in
\* any order, while the pipeline thread and the event loop run.  pc is the
\* last call made: "adapter" (none yet), "adapter_start" (inside start),
\* "started", "start_failed", "stopped".

\* stop() calls tried on one instance
MaxStops == 3

InitAdapter ==
    /\ platform = "linux"
    /\ pc = "adapter"
    /\ grabber = "created"
    /\ fn_in = <<>>
    /\ fn_out = <<>>
    /\ not_streaming

adapterIdle == <<platform, aside, pw_fd, error, connVars, portalVars, grabber,
                 produced, scheduled, queue, run, loopVars>>

\* start() up to and including set_state(PLAYING); a start on an instance
\* whose pipeline is playing is not tried
adapter_start ==
    /\ pc \in {"adapter", "start_failed", "stopped"}
    /\ pipeline # "PLAYING"
    /\ \E gst \in {"parse_error", "no_sink", "playing"} :
          CASE gst = "parse_error" ->
                  /\ pc' = "start_failed"
                  /\ UNCHANGED <<pipeline, eos>>
            [] gst = "no_sink" ->
                  /\ pc' = "start_failed"
                  /\ pipeline' = "READY"
                  /\ eos' = FALSE
            [] gst = "playing" ->
                  /\ pc' = "adapter_start"
                  /\ pipeline' = "PLAYING"
                  /\ eos' = FALSE
    /\ UNCHANGED <<adapterIdle, glib_loop, running, stops>>

\* the rest of start(): the GLib loop, the flag and the thread
adapter_start_running ==
    /\ pc = "adapter_start"
    /\ glib_loop' = "running"
    /\ running' = TRUE
    /\ pc' = "started"
    /\ UNCHANGED <<adapterIdle, pipeline, eos, stops>>

\* stop()
adapter_stop ==
    /\ pc \in {"adapter", "start_failed", "started", "stopped"}
    /\ stops < MaxStops
    /\ stop(pipeline, glib_loop)
    /\ pc' = "stopped"
    /\ UNCHANGED <<adapterIdle, eos>>

NextAdapter ==
    \/ adapter_start
    \/ adapter_start_running
    \/ adapter_stop
    \/ _on_new_sample
    \/ run_push

SpecAdapter == InitAdapter /\ [][NextAdapter]_vars

\* ------------------------------- the negotiation and the portal's signals
\* The portal may emit the Response of a request as soon as it has replied to
\* the call; the bus reader dispatches it to the handlers registered at that
\* moment.
InitNegotiation ==
    /\ platform = "linux"
    /\ pc = "bus_connect"
    /\ wsOpen = TRUE /\ connects = 1
    /\ error = "none" /\ failures = 0 /\ elapsed = 0
    /\ fd_passing_enabled = FALSE /\ step = 0
    /\ calls = <<>> /\ handlers = {} /\ fut = NoFut
    /\ resp = [k \in 1..3 |-> NoResp] /\ outcome = [k \in 1..4 |-> "none"]
    /\ session = "none" /\ closeCalls = 0 /\ closeReply = "none"
    /\ dropped = FALSE /\ grabber = "none" /\ pipeline = "none"
    /\ glib_loop = "none" /\ running = FALSE /\ eos = FALSE /\ produced = 0
    /\ scheduled = <<>> /\ queue = <<>> /\ stops = 0 /\ run = <<>>
    /\ frame = Unset /\ ok = FALSE /\ sent = 0 /\ messages = <<>>
    /\ delivered = <<>>
    /\ fn_in = <<>> /\ fn_out = <<>>
    /\ pw_fd = "none" /\ early = {} /\ since_stats = 0 /\ lines = 0
    /\ tray_off

\* the bus reader dispatches a Response signal while the coroutine has not
\* yet resumed from `await call_coro`: add_message_handler has not run, no
\* handler sees the signal
deliver_unhandled ==
    /\ platform = "linux" /\ pc = "call" /\ step \in 1..3
    /\ handlers = {}
    /\ \E path \in Paths, code \in Codes :
          /\ path <= step
          /\ early' = IF path = step /\ code = 0
                         THEN early \cup {step}
                         ELSE early
    /\ UNCHANGED <<platform, pc, error, connVars, portalVars, grabVars,
                   loopVars, pw_fd, fn_in, fn_out, since_stats, lines,
                   trayVars>>

NextNegotiation ==
    \/ connect
    \/ wait_request_response
    \/ deliver_unhandled
    \/ deliver_signal
    \/ wait_timeout
    \/ create_session
    \/ select_sources
    \/ start
    \/ open_pipewire_remote
    \/ close_session

SpecNegotiation == InitNegotiation /\ [][NextNegotiation]_vars

\* --------------------------------------- stop(), statement by statement
\* The caller's thread runs the statements of stop() one at a time while the
\* pipeline thread goes on calling _on_new_sample.

\* a stop() whose first statement leaves the flag as it is
stop_begin_flag_kept ==
    /\ pc \in {"adapter", "start_failed", "started", "stopped"}
    /\ stops < MaxStops
    /\ running' = running
    /\ stops' = stops + 1
    /\ pc' = "stop_pipeline"
    /\ UNCHANGED <<adapterIdle, pipeline, glib_loop, eos>>

\* stop() is entered: self._running = False
stop_begin ==
    /\ pc \in {"adapter", "start_failed", "started", "stopped"}
    /\ stops < MaxStops
    /\ running' = FALSE
    /\ stops' = stops + 1
    /\ pc' = "stop_pipeline"
    /\ UNCHANGED <<adapterIdle, pipeline, glib_loop, eos>>

\* if self.pipeline is not None: self.pipeline.set_state(Gst.State.NULL)
stop_pipeline ==
    /\ pc = "stop_pipeline"
    /\ pipeline' = IF pipeline # "none" THEN "NULL" ELSE pipeline
    /\ pc' = "stop_loop"
    /\ UNCHANGED <<adapterIdle, glib_loop, running, eos, stops>>

\* if self._glib_loop is not None: self._glib_loop.quit(); stop() returns
stop_loop ==
    /\ pc = "stop_loop"
    /\ glib_loop' = IF glib_loop # "none" THEN "quit" ELSE glib_loop
    /\ pc' = "stopped"
    /\ UNCHANGED <<adapterIdle, pipeline, running, eos, stops>>

NextTeardown ==
    \/ adapter_start
    \/ adapter_start_running
    \/ stop_begin
    \/ stop_pipeline
    \/ stop_loop
    \/ _on_new_sample
    \/ run_push

SpecTeardown == InitAdapter /\ [][NextTeardown]_vars

\* ================================================ build_ws_url (all variants)
\* A str is the sequence of its characters.
HTTPS == <<"h", "t", "t", "p", "s", ":", "/", "/">>
HTTP == <<"h", "t", "t", "p", ":", "/", "/">>
WS == <<"w", "s", ":", "/", "/">>
WSS == <<"w", "s", "s", ":", "/", "/">>
FTP == <<"f", "t", "p", ":", "/", "/">>
HTTPS_UPPER == <<"H", "T", "T", "P", "S", ":", "/", "/">>
INGEST == <<"/", "i", "n", "g", "e", "s", "t", "?", "r", "o", "o", "m", "=">>
PLAYER == <<"&", "p", "l", "a", "y", "e", "r", "=">>

\* trailing slashes tried on the --api value
MaxSlashes == 2

\* s.rstrip(c) left out
rstrip_nothing(s, c) == s

\* s.rstrip(c) for a single character c
RECURSIVE rstrip(_, _)
rstrip(s, c) ==
    IF s # <<>> /\ s[Len(s)] = c THEN rstrip(SubSeq(s, 1, Len(s) - 1), c)
    ELSE s

\* s.startswith(p)
startswith(s, p) == Len(s) >= Len(p) /\ SubSeq(s, 1, Len(p)) = p

\* s[n:]
slice_from(s, n) == SubSeq(s, n + 1, Len(s))

\* f"{ws_base}/ingest?room={room}&player={player}"
format_url(ws_base, room, player) ==
    ws_base \o INGEST \o room \o PLAYER \o player

\* streamer_linux.py
build_ws_url(api_base, room, player) ==
    LET base == rstrip(api_base, "/")
        ws_base ==
            IF startswith(base, HTTPS)
            THEN WSS \o slice_from(base, Len(HTTPS))
            ELSE IF startswith(base, HTTP)
            THEN WS \o slice_from(base, Len(HTTP))
            ELSE IF startswith(base, WS) \/ startswith(base, WSS)
            THEN base
            ELSE WS \o base
    IN  format_url(ws_base, room, player)

\* streamer_mac.py
build_ws_url_mac(api_base, room, player) ==
    LET base == rstrip(api_base, "/")
        ws_base ==
            IF startswith(base, HTTPS)
            THEN WSS \o slice_from(base, Len(HTTPS))
            ELSE IF startswith(base, HTTP)
            THEN WS \o slice_from(base, Len(HTTP))
            ELSE IF startswith(base, WS) \/ startswith(base, WSS)
            THEN base
            ELSE WS \o base
    IN  format_url(ws_base, room, player)

\* streamer_windows.py
build_ws_url_windows(api_base, room, player) ==
    LET base == rstrip(api_base, "/")
        ws_base ==
            IF startswith(base, HTTPS)
            THEN WSS \o slice_from(base, Len(HTTPS))
            ELSE IF startswith(base, HTTP)
            THEN WS \o slice_from(base, Len(HTTP))
            ELSE IF startswith(base, WS) \/ startswith(base, WSS)
            THEN base
            ELSE WS \o base
    IN  format_url(ws_base, room, player)

\* the --api values tried: a scheme (or none, or one the code does not
\* know), a host part (or none) and trailing slashes
Schemes == {HTTPS, HTTP, WS, WSS, FTP, HTTPS_UPPER, <<>>}
Hosts ==
    {<<"h">>, <<"h", ".", "i", ":", "8">>, <<"h", "/", "v", "1">>, <<>>}
Rooms == {<<"R", "1">>, <<"a", "&", "b">>}
Players == {<<"p", "1">>, <<"p", "2">>}

RECURSIVE slashes(_)
slashes(n) == IF n = 0 THEN <<>> ELSE <<"/">> \o slashes(n - 1)

\* the --api string of an input
api_base_of(in) == in.scheme \o in.host \o slashes(in.slashes)

InitUrl ==
    /\ platform \in {"linux", "mac", "windows"}
    /\ pc = "build_ws_url"
    /\ fn_in \in [scheme : Schemes, host : Hosts, slashes : 0..MaxSlashes,
                  room : Rooms, player : Players]
    /\ fn_out = <<>>
    /\ grabber = "none"
    /\ not_streaming

\* ws_url = build_ws_url(api_base, room, player) in stream_wayland
call_build_ws_url ==
    /\ platform = "linux" /\ pc = "build_ws_url"
    /\ fn_out' = build_ws_url(api_base_of(fn_in), fn_in.room, fn_in.player)
    /\ pc' = "built"
    /\ UNCHANGED <<platform, fn_in, observed, streamVars>>

\* ws_url = build_ws_url(args.api, args.room, args.player) in streamer_mac
call_build_ws_url_mac ==
    /\ platform = "mac" /\ pc = "build_ws_url"
    /\ fn_out' = build_ws_url_mac(api_base_of(fn_in), fn_in.room,
                                  fn_in.player)
    /\ pc' = "built"
    /\ UNCHANGED <<platform, fn_in, observed, streamVars>>

\* ws_url = build_ws_url(api_base, room, player) in stream_windows
call_build_ws_url_windows ==
    /\ platform = "windows" /\ pc = "build_ws_url"
    /\ fn_out' = build_ws_url_windows(api_base_of(fn_in), fn_in.room,
                                      fn_in.player)
    /\ pc' = "built"
    /\ UNCHANGED <<platform, fn_in, observed, streamVars>>

NextUrl ==
    \/ call_build_ws_url
    \/ call_build_ws_url_mac
    \/ call_build_ws_url_windows

SpecUrl == InitUrl /\ [][NextUrl]_vars

\* ====================================== _on_new_sample and the buffer
\* One callback from `sink.emit("pull-sample")` to its return, as the
\* sequence of what it does to the buffer and to the event loop.

\* largest width and height of a sample, in pixels
MaxSide == 2
\* largest number of padding bytes at the end of a row of the buffer
MaxPadding == 3

NoArray == [kind |-> "none", mem |-> "none", shape |-> <<>>]

\* np.frombuffer(data, dtype=np.uint8): a one-dimensional view of `data`
frombuffer(mem, nbytes) ==
    [kind |-> "array", mem |-> mem, shape |-> <<nbytes>>]

\* a.reshape((height, width, 3)): a view of the same memory, or ValueError
\* when the sizes differ
reshape(a, height, width) ==
    IF a.shape[1] = height * width * 3
       THEN [kind |-> "array", mem |-> a.mem, shape |-> <<height, width, 3>>]
       ELSE [kind |-> "ValueError", mem |-> "none", shape |-> <<>>]

\* a.copy(): a new array that owns its memory; an exception passes through
copy(a) == IF a.kind = "array" THEN [a EXCEPT !.mem = "own"] ELSE a

\* the unmap placed after the try body instead of in a finally block: it is
\* skipped when the body raised
unmap_after_body(body) ==
    IF body.kind = "array" THEN <<"unmap">> ELSE <<>>

\* finally: buf.unmap(mapinfo), whatever the try body did
finally_unmap(body) == <<"unmap">>

\* _on_new_sample from its first line to its return: what it returns or
\* raises, what it did to the buffer in order, and the frame it scheduled
new_sample(in) ==
    IF ~in.running
    THEN [ret |-> "EOS", events |-> <<>>, frame |-> NoArray]
    ELSE IF ~in.sample
    THEN [ret |-> "OK", events |-> <<"pull">>, frame |-> NoArray]
    ELSE IF ~in.map_ok
    THEN [ret |-> "OK", events |-> <<"pull", "map_failed">>,
          frame |-> NoArray]
    ELSE LET nbytes == (3 * in.width + in.padding) * in.height
             body == copy(reshape(frombuffer("buffer", nbytes),
                                  in.height, in.width))
         IN  IF body.kind = "array"
             THEN [ret |-> "OK",
                   events |-> <<"pull", "map">> \o finally_unmap(body)
                              \o <<"call_soon">>,
                   frame |-> body]
             ELSE [ret |-> body.kind,
                   events |-> <<"pull", "map">> \o finally_unmap(body),
                   frame |-> NoArray]

InitCallback ==
    /\ platform = "linux"
    /\ pc = "callback"
    /\ grabber = "created"
    /\ fn_in \in [running : BOOLEAN, sample : BOOLEAN, map_ok : BOOLEAN,
                  width : 1..MaxSide, height : 1..MaxSide,
                  padding : 0..MaxPadding]
    /\ fn_out = <<>>
    /\ not_streaming

\* the pipeline thread calls _on_new_sample once
call_on_new_sample ==
    /\ pc = "callback"
    /\ fn_out' = new_sample(fn_in)
    /\ pc' = "returned"
    /\ UNCHANGED <<platform, fn_in, observed, streamVars>>

NextCallback == call_on_new_sample

SpecCallback == InitCallback /\ [][NextCallback]_vars

\* ============================================== the streams of Start
\* RawPortalScreencast.start from `streams = unwrap(...)` to its return, and
\* the `s = streams[0]` of stream_wayland.

\* most stream entries in a Start response
MaxStreams == 2

\* a value inside a property: an integer or a string
IntVal(v) == [t |-> "int", v |-> v]
StrVal == [t |-> "str", v |-> 0]
\* a property of a stream: absent, a scalar, or a list of values
Absent == [kind |-> "absent", items |-> <<>>]
Scalar == [kind |-> "scalar", items |-> <<IntVal(7)>>]
List(items) == [kind |-> "list", items |-> items]

\* int(x): the integer, or ValueError for a string that is no number
int(x) == IF x.t = "int" THEN [kind |-> "ok", v |-> x.v]
                         ELSE [kind |-> "ValueError", v |-> 0]

\* w, h = 0, 0; if isinstance(size, list) and len(size) >= 2: w, h = ...
\* (an absent size is the default (0, 0), which unwrap makes a list)
parse_size(size) ==
    LET sz == IF size.kind = "absent" THEN List(<<IntVal(0), IntVal(0)>>)
                                       ELSE size
    IN  IF sz.kind = "list" /\ Len(sz.items) >= 2
        THEN LET w == int(sz.items[1])
                 h == int(sz.items[2])
             IN  IF w.kind # "ok" \/ h.kind # "ok"
                 THEN [kind |-> "ValueError", w |-> 0, h |-> 0]
                 ELSE [kind |-> "ok", w |-> w.v, h |-> h.v]
        ELSE [kind |-> "ok", w |-> 0, h |-> 0]

\* fr_t = None; if isinstance(fr, list) and len(fr) == 2: fr_t = (...)
parse_framerate(fr) ==
    IF fr.kind = "list" /\ Len(fr.items) = 2
    THEN LET n == int(fr.items[1])
             d == int(fr.items[2])
         IN  IF n.kind # "ok" \/ d.kind # "ok"
             THEN [kind |-> "ValueError", fr_t |-> <<>>]
             ELSE [kind |-> "ok", fr_t |-> <<n.v, d.v>>]
    ELSE [kind |-> "ok", fr_t |-> <<>>]

\* the body of `for entry in streams`, run over the entries in order: the
\* list `out`, or the exception of the first entry that raises
RECURSIVE parse_entries(_)
parse_entries(streams) ==
    IF streams = <<>>
    THEN [kind |-> "ok", out |-> <<>>]
    ELSE LET entry == Head(streams)
             size == parse_size(entry.size)
             fr == parse_framerate(entry.framerate)
             rest == parse_entries(Tail(streams))
         IN  IF size.kind # "ok" THEN [kind |-> size.kind, out |-> <<>>]
             ELSE IF fr.kind # "ok" THEN [kind |-> fr.kind, out |-> <<>>]
             ELSE IF rest.kind # "ok" THEN rest
             ELSE [kind |-> "ok",
                   out |-> <<[node_id |-> entry.node_id,
                              width |-> size.w, height |-> size.h,
                              framerate |-> fr.fr_t]>> \o rest.out]

\* start() once the response code was 0: `results` is the results dictionary
\* of the Response, with or without the key "streams"
start_streams(results) ==
    IF ~results.has_streams \/ results.streams = <<>>
    THEN [kind |-> "RuntimeError", out |-> <<>>]
    ELSE parse_entries(results.streams)

\* the property values tried
SizeValues ==
    {Absent, Scalar, List(<<IntVal(7)>>), List(<<IntVal(7), IntVal(5)>>),
     List(<<IntVal(7), IntVal(5), IntVal(3)>>), List(<<StrVal, StrVal>>)}
FramerateValues ==
    {Absent, Scalar, List(<<IntVal(30)>>), List(<<IntVal(30), IntVal(1)>>),
     List(<<IntVal(30), StrVal>>)}
Entries == [node_id : {41, 42}, size : SizeValues,
            framerate : FramerateValues]
\* the stream lists tried: one or two entries
StreamLists ==
    UNION {[1..n -> Entries] : n \in 1..MaxStreams}

InitStart ==
    /\ platform = "linux"
    /\ pc = "start_streams"
    /\ grabber = "none"
    /\ fn_in \in {[has_streams |-> FALSE, streams |-> <<>>],
                  [has_streams |-> TRUE, streams |-> <<>>]}
                 \cup {[has_streams |-> TRUE, streams |-> l] :
                         l \in StreamLists}
    /\ fn_out = <<>>
    /\ not_streaming

\* streams = await portal.start(session); s = streams[0]
call_start ==
    /\ pc = "start_streams"
    /\ fn_out' = start_streams(fn_in)
    /\ pc' = "streams_returned"
    /\ UNCHANGED <<platform, fn_in, observed, streamVars>>

NextStart == call_start

SpecStart == InitStart /\ [][NextStart]_vars

\* ============================================ the diagnostic line
\* The three streaming loops of a connected session with a clock in whole
\* seconds: since_stats is `now - last_stats` (Linux, Windows) or
\* `time.perf_counter() - last` (macOS), lines counts the lines printed.

\* `if now - last_stats > 5` / `if time.perf_counter() - last > 5`
StatsPeriod == 5
\* grabber.get_frame(timeout_s=3.0)
GetFrameTimeout == 3
\* longest time one iteration spends capturing, encoding and sending
MaxBusy == 1
\* longest pacing sleep of one iteration
MaxPace == 1
\* the clock is followed up to this many seconds after the last line
MaxAge == 9
\* diagnostic lines followed
MaxLines == 2

\* the state of a session that has just connected and is about to enter
\* `while True`: last_stats = now, nothing sent
InitStats ==
    /\ platform \in {"linux", "mac", "windows"}
    /\ pc = "streaming"
    /\ wsOpen = TRUE /\ connects = 1
    /\ error = "none" /\ failures = 0 /\ elapsed = 0
    /\ fd_passing_enabled = (platform = "linux")
    /\ step = IF platform = "linux" THEN 4 ELSE 0
    /\ calls = IF platform = "linux" THEN Order ELSE <<>>
    /\ handlers = {} /\ fut = NoFut
    /\ resp = [k \in 1..3 |->
                 IF platform = "linux"
                    THEN [response |-> 0, results |-> TRUE, path |-> k,
                          expected |-> k]
                    ELSE NoResp]
    /\ outcome = [k \in 1..4 |-> IF platform = "linux" THEN "ok" ELSE "none"]
    /\ session = IF platform = "linux" THEN "s1" ELSE "none"
    /\ closeCalls = 0 /\ closeReply = "none" /\ dropped = FALSE
    /\ grabber = IF platform = "linux" THEN "created" ELSE "none"
    /\ pipeline = IF platform = "linux" THEN "PLAYING" ELSE "none"
    /\ glib_loop = IF platform = "linux" THEN "running" ELSE "none"
    /\ running = (platform = "linux")
    /\ pw_fd = IF platform = "linux" THEN "open" ELSE "none"
    /\ eos = FALSE /\ produced = 0
    /\ scheduled = <<>> /\ queue = <<>> /\ stops = 0 /\ run = <<>>
    /\ frame = Unset /\ ok = FALSE /\ sent = 0 /\ messages = <<>>
    /\ delivered = <<>>
    /\ fn_in = <<>> /\ fn_out = <<>>
    /\ early = {} /\ since_stats = 0 /\ lines = 0
    /\ tray_off

statsIdle == <<platform, pc, error, connVars, portalVars, grabVars, messages,
               delivered, pw_fd, fn_in, fn_out, early, trayVars>>

\* the stats block reached `age` seconds after the last line: a line is
\* printed and the mark moved when more than 5 seconds have passed
stats_block(age) ==
    IF age > StatsPeriod
    THEN /\ lines < MaxLines
         /\ lines' = lines + 1
         /\ since_stats' = 0
    ELSE /\ lines' = lines
         /\ since_stats' = age

\* Linux: get_frame returns None after its 3 seconds; `continue` goes back
\* to the top of the loop
stats_get_frame_timeout ==
    /\ platform = "linux" /\ pc = "streaming"
    /\ since_stats + GetFrameTimeout <= MaxAge
    /\ frame' = NoFrame
    /\ since_stats' = since_stats + GetFrameTimeout
    /\ UNCHANGED <<statsIdle, ok, sent, lines>>

\* Linux: a frame arrives within the 3 seconds; resize, encode, send when
\* ok, then the stats block
stats_iteration ==
    /\ platform = "linux" /\ pc = "streaming"
    /\ sent < MaxFrames
    /\ \E wait \in 0..(GetFrameTimeout - 1), busy \in 0..MaxBusy,
          enc \in BOOLEAN :
          /\ since_stats + wait + busy <= MaxAge
          /\ frame' = 1
          /\ ok' = enc
          /\ sent' = IF enc THEN sent + 1 ELSE sent
          /\ stats_block(since_stats + wait + busy)
    /\ UNCHANGED statsIdle

\* Windows: capture, encode, send when ok, the stats block, then the FPS
\* limiter's sleep
stats_iteration_windows ==
    /\ platform = "windows" /\ pc = "streaming"
    /\ sent < MaxFrames
    /\ \E busy \in 0..MaxBusy, pace \in 0..MaxPace, enc \in BOOLEAN :
          /\ since_stats + busy + pace <= MaxAge
          /\ frame' = 1
          /\ ok' = enc
          /\ sent' = IF enc THEN sent + 1 ELSE sent
          /\ IF since_stats + busy > StatsPeriod
                THEN /\ lines < MaxLines
                     /\ lines' = lines + 1
                     /\ since_stats' = pace
                ELSE /\ lines' = lines
                     /\ since_stats' = since_stats + busy + pace
    /\ UNCHANGED statsIdle

\* macOS: capture and encode; `if not ok: continue`; else send, the pacing
\* sleep, then the log test
stats_iteration_mac ==
    /\ platform = "mac" /\ pc = "streaming"
    /\ sent < MaxFrames
    /\ \E busy \in 0..MaxBusy, pace \in 0..MaxPace, enc \in BOOLEAN :
          /\ since_stats + busy + pace <= MaxAge
          /\ frame' = 1
          /\ ok' = enc
          /\ IF enc
                THEN /\ sent' = sent + 1
                     /\ stats_block(since_stats + busy + pace)
                ELSE /\ pace = 0
                     /\ sent' = sent
                     /\ lines' = lines
                     /\ since_stats' = since_stats + busy
    /\ UNCHANGED statsIdle

NextStats ==
    \/ stats_get_frame_timeout
    \/ stats_iteration
    \/ stats_iteration_windows
    \/ stats_iteration_mac

SpecStats == InitStats /\ [][NextStats]_vars

\* ================================================== main.py: score tray
\* The tray process: the __main__ block, the score websocket thread
\* (on_ws_open, on_message), the hotkey thread (_on_hotkey_pressed) and the
\* menu (set_send_mode).  One step is one callback.

\* send_score calls followed
MaxSends == 1
\* debounce windows of time followed after the start
MaxWindows == 1
\* `if now - last < 10`
DebounceSeconds == 10

\* --- the score conversion of on_message
Digits == {"0", "1", "2", "3", "4", "5", "6", "7", "8", "9"}
DigitVal(c) ==
    CASE c = "0" -> 0 [] c = "1" -> 1 [] c = "2" -> 2 [] c = "3" -> 3
      [] c = "4" -> 4 [] c = "5" -> 5 [] c = "6" -> 6 [] c = "7" -> 7
      [] c = "8" -> 8 [] c = "9" -> 9

\* s.replace(',', '').replace('.', '')
IsSeparator(c) == c \in {",", "."}
strip_separators(str) == SelectSeq(str, LAMBDA c : ~IsSeparator(c))

\* s.lstrip('0')
RECURSIVE lstrip_zeros(_)
lstrip_zeros(str) ==
    IF str # <<>> /\ Head(str) = "0" THEN lstrip_zeros(Tail(str)) ELSE str

\* the value of a string of digits, most significant first
RECURSIVE digits_value(_, _)
digits_value(str, acc) ==
    IF str = <<>> THEN acc
    ELSE digits_value(Tail(str), 10 * acc + DigitVal(Head(str)))

\* int(s) for a non-empty string: an optional sign and digits, else
\* ValueError
int_str(str) ==
    LET body == IF Head(str) \in {"-", "+"} THEN Tail(str) ELSE str
    IN  IF body # <<>> /\ \A i \in DOMAIN body : body[i] \in Digits
        THEN [kind |-> "ok",
              v |-> IF Head(str) = "-" THEN 0 - digits_value(body, 0)
                                       ELSE digits_value(body, 0)]
        ELSE [kind |-> "ValueError", v |-> 0]

\* int(str(raw_score).replace(',', '').replace('.', '').lstrip('0') or 0)
clean_player_score(raw) ==
    LET t == lstrip_zeros(strip_separators(raw))
    IN  IF t = <<>> THEN [kind |-> "ok", v |-> 0] ELSE int_str(t)

\* the score of the first entry only
first_score_of(raws, best) ==
    IF raws = <<>> THEN best
    ELSE LET c == clean_player_score(Head(raws))
         IN  IF c.kind = "ok" /\ c.v > best THEN c.v ELSE best

\* the loop `for p_data in ...: try: ... if score > best_score` over the raw
\* scores in `raws`, starting from best
RECURSIVE best_score_of(_, _)
best_score_of(raws, best) ==
    IF raws = <<>> THEN best
    ELSE LET c == clean_player_score(Head(raws))
         IN  best_score_of(Tail(raws),
                           IF c.kind = "ok" /\ c.v > best THEN c.v ELSE best)

\* the raw scores of the players stored for one ROM, in player order
stored_scores(data) ==
    LET a == data.scores["1"]
        b == data.scores["2"]
    IN  (IF a = NoPlayer THEN <<>> ELSE <<a>>)
        \o (IF b = NoPlayer THEN <<>> ELSE <<b>>)

\* --- the messages of the score server
\* str(score) of the scores tried: "07", "1,2" and "x"
Seven == <<"0", "7">>
Twelve == <<"1", ",", "2">>
NoNumber == <<"x">>
\* one entry of a message's `scores`
Entry(p, a) == [player |-> p, score |-> a]
\* the score lists of a game_end
EndScores ==
    {<<>>, <<Entry("1", NoNumber)>>,
     <<Entry("1", Twelve), Entry("2", Seven)>>,
     <<Entry("1", NoNumber), Entry("2", Seven)>>}
\* the player entries of a current_scores: none or both players
PlayerScores ==
    {<<>>, <<Entry("1", Twelve), Entry("2", Seven)>>}
\* p_data.get('score', 0) of each entry
raw_scores(entries) == [i \in DOMAIN entries |-> entries[i].score]
\* the `timestamp` field: absent, or a time written with or without the
\* fraction of a second
NoTimestamp == [present |-> FALSE, fraction |-> FALSE, time |-> 0]
Timestamp(fraction, time) ==
    [present |-> TRUE, fraction |-> fraction, time |-> time]
\* game_duration: None (0 - 1) or seconds
NoDuration == 0 - 1
MIN_GAME_DURATION_SEC == 60
\* reason and game_duration of the game_end messages tried with one list
EndKinds ==
    {<<"", MIN_GAME_DURATION_SEC - 1>>, <<"", MIN_GAME_DURATION_SEC>>,
     <<"plugin_unload", NoDuration>>}

Message(type, rom, ts, reason, duration, scores) ==
    [type |-> type, rom |-> rom, timestamp |-> ts, reason |-> reason,
     game_duration |-> duration, scores |-> scores]

\* the messages without a timestamp
Plain ==
    {Message(type, rom, NoTimestamp, "", NoDuration, <<>>) :
        type \in {"table_loaded", "game_start"}, rom \in Roms}
    \cup {Message("info", "afm", NoTimestamp, "", NoDuration, <<>>)}
    \cup {Message("game_end", rom, NoTimestamp, "", NoDuration, sc) :
            rom \in Roms, sc \in EndScores}
    \cup {Message("game_end", rom, NoTimestamp, k[1], k[2],
                  <<Entry("1", NoNumber), Entry("2", Seven)>>) :
            rom \in Roms, k \in EndKinds}
    \cup {Message("current_scores", rom, NoTimestamp, "", NoDuration, sc) :
            rom \in Roms, sc \in PlayerScores}

\* the messages with a timestamp: one of each type that acts, stamped a
\* second before the connection opened or with the present time
Stamped(opened, t) ==
    LET tss == {Timestamp(TRUE, opened - 1), Timestamp(FALSE, opened - 1),
                Timestamp(TRUE, t)}
    IN  {Message("table_loaded", rom, ts, "", NoDuration, <<>>) :
            rom \in Roms, ts \in tss}
        \cup {Message("game_end", rom, ts, "", NoDuration,
                      <<Entry("1", Seven)>>) : rom \in Roms, ts \in tss}
        \cup {Message("current_scores", rom, ts, "", NoDuration,
                      <<Entry("1", Twelve)>>) : rom \in Roms, ts \in tss}

\* datetime.strptime(ts, '%Y-%m-%dT%H:%M:%S.%f'): the time, or ValueError
\* for a timestamp written without the fraction
strptime(ts) ==
    IF ts.fraction THEN [kind |-> "ok", time |-> ts.time]
                   ELSE [kind |-> "ValueError", time |-> 0]

\* the stale test of on_message (lines 334-343)
is_stale(msg, opened) ==
    /\ msg.timestamp.present /\ opened # 0
    /\ strptime(msg.timestamp).kind = "ok"
    /\ strptime(msg.timestamp).time < opened

\* --- the last score
_set_last_score(rom, score) ==
    /\ _last_score_rom' = rom
    /\ _last_score_value' = score

\* send_score(rom, score) is called by `by`
call_send_score(rom, score, by) ==
    /\ sends' = sends + 1
    /\ last_call' = [rom |-> rom, score |-> score, by |-> by]

\* the game_end branch from line 375 on: the game_end is accepted
game_end_accepted(msg) ==
    LET rom == msg.rom
        data == game_session_data[rom]
        best_score ==
            IF msg.scores # <<>>
               THEN best_score_of(raw_scores(msg.scores), 0)
            ELSE IF data.present /\ stored_scores(data) # <<>>
                 THEN best_score_of(stored_scores(data), 0)
                 ELSE 0
    IN  /\ last_game_end' = [last_game_end EXCEPT ![rom] = now]
        /\ IF best_score > 0
              THEN /\ _set_last_score(rom, best_score)
                   /\ IF SEND_MODE = "automatic"
                         THEN call_send_score(rom, best_score, "game_end")
                         ELSE UNCHANGED callVars
              ELSE UNCHANGED <<lastVars, callVars>>
        /\ game_session_data' = [game_session_data EXCEPT ![rom] = NoData]

\* the tests a game_end passes before it is accepted (lines 358-374)
game_end_refused(msg) ==
    \/ msg.reason = "plugin_unload"
    \/ /\ msg.game_duration # NoDuration
       /\ msg.game_duration < MIN_GAME_DURATION_SEC
    \/ now - last_game_end[msg.rom] < DebounceSeconds

\* a game_end branch without the test of the game duration
game_end_any_duration(msg) ==
    IF msg.reason = "plugin_unload"
    THEN /\ game_session_data' =
               [game_session_data EXCEPT ![msg.rom] = NoData]
         /\ UNCHANGED <<last_game_end, lastVars, callVars>>
    ELSE IF now - last_game_end[msg.rom] < DebounceSeconds
    THEN UNCHANGED <<sessionVars, lastVars, callVars>>
    ELSE game_end_accepted(msg)

\* the game_end branch of on_message (lines 354-418)
game_end(msg) ==
    IF msg.reason = "plugin_unload"
    THEN /\ game_session_data' =
               [game_session_data EXCEPT ![msg.rom] = NoData]
         /\ UNCHANGED <<last_game_end, lastVars, callVars>>
    ELSE IF game_end_refused(msg)
    THEN UNCHANGED <<sessionVars, lastVars, callVars>>
    ELSE game_end_accepted(msg)

\* the loop of lines 424-435: each entry's score is stored under its player
RECURSIVE store_players(_, _)
store_players(scores, entries) ==
    IF entries = <<>> THEN scores
    ELSE store_players([scores EXCEPT ![Head(entries).player] =
                                         Head(entries).score],
                       Tail(entries))

\* the current_scores branch of on_message (lines 420-448)
current_scores(msg) ==
    LET rom == msg.rom
        old == IF game_session_data[rom].present
                  THEN game_session_data[rom].scores
                  ELSE NoData.scores
        new == store_players(old, msg.scores)
        data == [present |-> TRUE, scores |-> new]
        best_current == best_score_of(stored_scores(data), 0)
    IN  /\ game_session_data' = [game_session_data EXCEPT ![rom] = data]
        /\ IF SEND_MODE = "manual" /\ best_current > 0
              THEN _set_last_score(rom, best_current)
              ELSE UNCHANGED lastVars
        /\ UNCHANGED <<last_game_end, callVars>>

\* a game start that leaves the debounce time of the ROM in place
game_start_debounce_kept(msg) ==
    /\ game_session_data' =
          [game_session_data EXCEPT
              ![msg.rom] = [NoData EXCEPT !.present = TRUE]]
    /\ UNCHANGED <<last_game_end, lastVars, callVars>>

\* the table_loaded / game_start branch of on_message (lines 348-352)
game_start(msg) ==
    /\ game_session_data' =
          [game_session_data EXCEPT
              ![msg.rom] = [NoData EXCEPT !.present = TRUE]]
    /\ last_game_end' = [last_game_end EXCEPT ![msg.rom] = 0]
    /\ UNCHANGED <<lastVars, callVars>>

\* on_message applied to one decoded message
handle(msg) ==
    IF is_stale(msg, ws_connected_at)
    THEN UNCHANGED <<sessionVars, lastVars, callVars>>
    ELSE IF msg.type \in {"table_loaded", "game_start"} THEN game_start(msg)
    ELSE IF msg.type = "game_end" THEN game_end(msg)
    ELSE IF msg.type = "current_scores" THEN current_scores(msg)
    ELSE UNCHANGED <<sessionVars, lastVars, callVars>>

\* --- the hotkey listener
\* _stop_hotkey_listener: [ref, n] are the global and the running listeners
_stop_hotkey_listener(l) ==
    IF l.ref THEN [ref |-> FALSE, n |-> l.n - 1] ELSE l

\* a start that does not stop the listener in place
_start_hotkey_listener_no_stop(l) == [ref |-> TRUE, n |-> l.n + 1]

\* _start_hotkey_listener: stop, then a new GlobalHotKeys, started
_start_hotkey_listener(l) ==
    [ref |-> TRUE, n |-> _stop_hotkey_listener(l).n + 1]

Listener == [ref |-> _hotkey_listener, n |-> listeners]
SetListener(l) == _hotkey_listener' = l.ref /\ listeners' = l.n

\* --- the steps
InitTray ==
    /\ platform = "windows"
    /\ pc = "tray"
    /\ grabber = "none"
    /\ fn_in = <<>>
    /\ fn_out = <<>>
    /\ not_streaming

trayIdle == <<platform, pc, fn_in, fn_out, early, since_stats, lines,
              error, connVars, portalVars, grabVars, loopVars, pw_fd,
              lockVars>>

\* load_config(): SEND_MODE is what config.ini says, "automatic" without it
load_config ==
    /\ tray = "off"
    /\ tray' = "startup"
    /\ \E sm \in {"automatic", "manual"} : SEND_MODE' = sm
    /\ UNCHANGED <<trayIdle, connected, now, ws_connected_at, sessionVars,
                   lastVars, listenerVars, callVars, notices>>

\* the rest of the __main__ block: the tray, the websocket thread, the
\* listener in manual mode, then app.exec()
main ==
    /\ tray = "startup"
    /\ tray' = "running"
    /\ IF SEND_MODE = "manual"
          THEN SetListener(_start_hotkey_listener(Listener))
          ELSE UNCHANGED listenerVars
    /\ UNCHANGED <<trayIdle, connected, now, SEND_MODE, ws_connected_at,
                   sessionVars, lastVars, callVars, notices>>

\* the menu: VPinScoreTray.set_send_mode(mode)
set_send_mode ==
    /\ tray = "running"
    /\ \E mode \in {"automatic", "manual"} :
          /\ SEND_MODE' = mode
          /\ IF mode = "manual"
                THEN SetListener(_start_hotkey_listener(Listener))
                ELSE SetListener(_stop_hotkey_listener(Listener))
    /\ UNCHANGED <<trayIdle, tray, connected, now, ws_connected_at,
                   sessionVars, lastVars, callVars, notices>>

\* run_websocket connects: on_ws_open
on_ws_open ==
    /\ tray = "running" /\ ~connected
    /\ connected' = TRUE
    /\ ws_connected_at' = now
    /\ UNCHANGED <<trayIdle, tray, now, SEND_MODE, sessionVars, lastVars,
                   listenerVars, callVars, notices>>

\* the clock moves on by the length of the debounce window; it is followed
\* from the moment the socket is open
clock ==
    /\ tray = "running" /\ connected
    /\ now + DebounceSeconds <= Boot + MaxWindows * DebounceSeconds
    /\ now' = now + DebounceSeconds
    /\ UNCHANGED <<trayIdle, tray, connected, SEND_MODE, ws_connected_at,
                   sessionVars, lastVars, listenerVars, callVars, notices>>

\* a message without a timestamp reaches on_message
on_message ==
    /\ tray = "running" /\ connected
    /\ \E msg \in Plain : handle(msg)
    /\ sends' <= MaxSends
    /\ UNCHANGED <<trayIdle, tray, connected, now, SEND_MODE,
                   ws_connected_at, listenerVars, notices>>

\* a message with a timestamp reaches on_message
on_message_stamped ==
    /\ tray = "running" /\ connected
    /\ \E msg \in Stamped(ws_connected_at, now) : handle(msg)
    /\ sends' <= MaxSends
    /\ UNCHANGED <<trayIdle, tray, connected, now, SEND_MODE,
                   ws_connected_at, listenerVars, notices>>

\* a hotkey press that submits whatever _get_last_score returns
_on_hotkey_pressed_unchecked ==
    /\ tray = "running" /\ listeners > 0
    /\ call_send_score(_last_score_rom, _last_score_value, "hotkey")
    /\ sends' <= MaxSends
    /\ UNCHANGED <<trayIdle, tray, connected, now, SEND_MODE,
                   ws_connected_at, sessionVars, lastVars, listenerVars,
                   notices>>

\* the hotkey is pressed while a listener is running
_on_hotkey_pressed ==
    /\ tray = "running" /\ listeners > 0
    /\ IF _last_score_rom = None \/ _last_score_value <= 0
          THEN /\ notices' = TRUE
               /\ UNCHANGED callVars
          ELSE /\ call_send_score(_last_score_rom, _last_score_value,
                                  "hotkey")
               /\ sends' <= MaxSends
               /\ notices' = notices
    /\ UNCHANGED <<trayIdle, tray, connected, now, SEND_MODE,
                   ws_connected_at, sessionVars, lastVars, listenerVars>>

NextTray ==
    \/ load_config
    \/ main
    \/ set_send_mode
    \/ on_ws_open
    \/ clock
    \/ on_message
    \/ _on_hotkey_pressed

SpecTray == InitTray /\ [][NextTray]_vars

\* the tray fed with timestamped messages
NextStale ==
    \/ load_config
    \/ main
    \/ on_ws_open
    \/ clock
    \/ on_message_stamped

SpecStale == InitTray /\ [][NextStale]_vars

\* ============================================ main.py: _last_score_lock
\* _set_last_score in the websocket thread and _get_last_score in the hotkey
\* thread, one statement a step.  `setter` and `getter` hold each thread's
\* position and its local values.

\* the scores _set_last_score is called with
LastScores == {7, 12}

lockIdle == <<platform, pc, fn_in, fn_out, early, since_stats, lines,
              error, connVars, portalVars, grabVars, loopVars, pw_fd,
              tray, connected, now, SEND_MODE, ws_connected_at, sessionVars,
              listenerVars, callVars, notices>>

\* on_message calls _set_last_score(rom_name, score)
set_call ==
    /\ tray = "running" /\ connected
    /\ setter.pc = "idle"
    /\ \E rom \in Roms, score \in LastScores :
          /\ setter' = [pc |-> "acquire", rom |-> rom, score |-> score]
          /\ written' = written \cup {<<rom, score>>}
    /\ UNCHANGED <<lockIdle, lastVars, _last_score_lock, getter>>

\* a setter that goes on without the lock
set_acquire_no_lock ==
    /\ setter.pc = "acquire"
    /\ setter' = [setter EXCEPT !.pc = "rom"]
    /\ UNCHANGED <<lockIdle, lastVars, _last_score_lock, getter, written>>

\* `with _last_score_lock:` of _set_last_score
set_acquire ==
    /\ setter.pc = "acquire"
    /\ _last_score_lock = "free"
    /\ _last_score_lock' = "setter"
    /\ setter' = [setter EXCEPT !.pc = "rom"]
    /\ UNCHANGED <<lockIdle, lastVars, getter, written>>

\* _last_score_rom = rom_name
set_rom ==
    /\ setter.pc = "rom"
    /\ _last_score_rom' = setter.rom
    /\ setter' = [setter EXCEPT !.pc = "value"]
    /\ UNCHANGED <<lockIdle, _last_score_value, _last_score_lock, getter,
                   written>>

\* _last_score_value = score
set_value ==
    /\ setter.pc = "value"
    /\ _last_score_value' = setter.score
    /\ setter' = [setter EXCEPT !.pc = "release"]
    /\ UNCHANGED <<lockIdle, _last_score_rom, _last_score_lock, getter,
                   written>>

\* the end of the with block of _set_last_score
set_release ==
    /\ setter.pc = "release"
    /\ _last_score_lock' =
          IF _last_score_lock = "setter" THEN "free" ELSE _last_score_lock
    /\ setter' = Idle
    /\ UNCHANGED <<lockIdle, lastVars, getter, written>>

\* _on_hotkey_pressed calls _get_last_score()
get_call ==
    /\ tray = "running" /\ listeners > 0
    /\ getter.pc \in {"idle", "returned"}
    /\ getter' = [Idle EXCEPT !.pc = "acquire"]
    /\ UNCHANGED <<lockIdle, lastVars, _last_score_lock, setter, written>>

\* `with _last_score_lock:` of _get_last_score
get_acquire ==
    /\ getter.pc = "acquire"
    /\ _last_score_lock = "free"
    /\ _last_score_lock' = "getter"
    /\ getter' = [getter EXCEPT !.pc = "rom"]
    /\ UNCHANGED <<lockIdle, lastVars, setter, written>>

\* the load of _last_score_rom in the return statement
get_rom ==
    /\ getter.pc = "rom"
    /\ getter' = [getter EXCEPT !.pc = "value", !.rom = _last_score_rom]
    /\ UNCHANGED <<lockIdle, lastVars, _last_score_lock, setter, written>>

\* the load of _last_score_value in the return statement
get_value ==
    /\ getter.pc = "value"
    /\ getter' = [getter EXCEPT !.pc = "release",
                                !.score = _last_score_value]
    /\ UNCHANGED <<lockIdle, lastVars, _last_score_lock, setter, written>>

\* the with block of _get_last_score ends and the pair is returned
get_release ==
    /\ getter.pc = "release"
    /\ _last_score_lock' = "free"
    /\ getter' = [getter EXCEPT !.pc = "returned"]
    /\ UNCHANGED <<lockIdle, lastVars, setter, written>>

NextLastScore ==
    \/ load_config
    \/ main
    \/ on_ws_open
    \/ set_call
    \/ set_acquire
    \/ set_rom
    \/ set_value
    \/ set_release
    \/ get_call
    \/ get_acquire
    \/ get_rom
    \/ get_value
    \/ get_release

SpecLastScore == InitTray /\ [][NextLastScore]_vars

\* ==================================================== main.py: send_score
\* send_score applied alone: the score, the configuration and what the API
\* does are in fn_in, what send_score did is in fn_out.

\* str(score) of the scores tried: 0, 007, -5, x, 12 and 1,2
SentScores ==
    {<<"0">>, <<"0", "0", "7">>, <<"-", "5">>, <<"x">>, <<"1", "2">>,
     <<"1", ",", "2">>}
\* API_URL and API_KEY: empty or set
Settings == {<<>>, <<"k">>}
\* what the request does: requests.post raises, raise_for_status raises,
\* r.json() raises, the answer has no true 'success', or it has one
Outcomes == {"ConnectionError", "HTTPError", "not_json", "failure",
             "success"}

\* what a call did
Did(requests, multipart, notifications, errors, raised) ==
    [requests |-> requests, multipart |-> multipart,
     notifications |-> notifications, errors |-> errors, raised |-> raised]

\* int(str(score).lstrip('0') or 0), 0 when int raises (lines 229-232)
clean_score(score) ==
    LET t == lstrip_zeros(score)
    IN  IF t = <<>> THEN 0
        ELSE IF int_str(t).kind = "ok" THEN int_str(t).v ELSE 0

\* the try block of send_score (lines 257-317): what it did, and whether it
\* ended with an exception
try_block(in) ==
    LET multipart == in.screenshot
    IN  IF in.outcome \in {"ConnectionError", "HTTPError", "not_json"}
        THEN Did(1, multipart, 0, 0, TRUE)
        ELSE IF in.outcome = "success"
        THEN Did(1, multipart, 1, 0, FALSE)
        ELSE Did(1, multipart, 0, 1, FALSE)

\* `except Exception as e: _log("ERROR", ...)` (lines 318-319)
except_Exception(did) ==
    IF did.raised
    THEN [did EXCEPT !.errors = did.errors + 1, !.raised = FALSE]
    ELSE did

\* send_score whose try block has no except clause
send_score_uncaught(in) ==
    IF clean_score(in.score) <= 0 THEN Did(0, FALSE, 0, 0, FALSE)
    ELSE IF in.API_URL = <<>> \/ in.API_KEY = <<>>
    THEN Did(0, FALSE, 0, 1, FALSE)
    ELSE try_block(in)

\* send_score(table_name, score)
send_score(in) ==
    IF clean_score(in.score) <= 0 THEN Did(0, FALSE, 0, 0, FALSE)
    ELSE IF in.API_URL = <<>> \/ in.API_KEY = <<>>
    THEN Did(0, FALSE, 0, 1, FALSE)
    ELSE except_Exception(try_block(in))

InitSend ==
    /\ platform = "windows"
    /\ pc = "send_score"
    /\ fn_in \in [score : SentScores, API_URL : Settings,
                  API_KEY : Settings, screenshot : BOOLEAN,
                  outcome : Outcomes]
    /\ fn_out = <<>>
    /\ grabber = "none"
    /\ not_streaming

\* send_score(rom, score) as on_message and the hotkey thread call it
call_send_score_alone ==
    /\ pc = "send_score"
    /\ fn_out' = send_score(fn_in)
    /\ pc' = "score_sent"
    /\ UNCHANGED <<platform, fn_in, observed, streamVars>>

NextSend ==
    \/ call_send_score_alone

SpecSend == InitSend /\ [][NextSend]_vars

\* ================================================================ claims
IsPrefix(s, t) == Len(s) <= Len(t) /\ \A i \in 1..Len(s) : s[i] = t[i]
Range(s) == {s[i] : i \in 1..Len(s)}
Ended == {"closing", "exited"}
TransportErrors == {"ConnectionError", "ConnectionClosed"}

\* C1: the portal calls issued so far are a prefix of CreateSession,
\* SelectSources, Start, OpenPipeWireRemote (so in that order, each at most
\* once), and when the k-th call has been issued the wait of every earlier
\* step returned response code 0.
C1_StrictOrder ==
    /\ IsPrefix(calls, Order)
    /\ \A k \in 1..Len(calls) : \A j \in 1..(k - 1) : resp[j].response = 0

\* all four calls have been issued
C1_Witness == calls = Order

\* C2: a resolved wait was resolved by a signal on its own request path: a
\* Response on another path neither resolves the wait nor sets its result.
C2_NoCrossTalk == fut.state = "done" => fut.path = fut.expected

\* C3: a step whose wait returned a non-zero code ends as denied; once a
\* step has ended as denied or timed out the attempt has ended with an
\* error, the calls issued are exactly those up to that step (no later call,
\* no second call of the failed step, no second CreateSession).
C3_FailureIsTerminal ==
    \A k \in 1..4 :
        /\ (k <= 3 /\ resp[k].response > 0) => outcome[k] = "denied"
        /\ outcome[k] \in {"denied", "timeout"} =>
              /\ pc \in Ended
              /\ error # "none"
              /\ calls = SubSeq(Order, 1, k)

\* SelectSources was denied after the session existed, and the run is over
C3_Witness ==
    /\ outcome[2] = "denied" /\ pc = "exited" /\ calls = SubSeq(Order, 1, 2)

\* teardown as seen in a state: Close at most once, and exactly once with the
\* adapter stopped when the attempt has ended
C4_state ==
    /\ closeCalls <= 1
    /\ (session # "none" /\ pc \in Ended) =>
          /\ closeCalls = 1
          /\ grabber # "none" =>
                /\ stops = 1
                /\ ~running
                /\ pipeline \in {"none", "NULL"}
                /\ glib_loop # "running"
    /\ (session # "none" /\ pc \notin Ended) => closeCalls = 0

\* the step that receives the reply to Close
C4_CloseReply ==
    (closeReply = "none" /\ closeReply' # "none") =>
        (pc = "closing" /\ error' = error /\ pc' = "exited")

\* C4: Close is issued at most once; once the session exists, an attempt
\* that has ended has issued Close exactly once and, if an adapter was
\* created, has stopped it exactly once (pipeline down, flag false) by the
\* time Close is issued; the reply to Close, error or not, leaves the pending
\* exception as it was and the run ends.
C4_Teardown == []C4_state /\ [][C4_CloseReply]_vars

\* a send failure stopped the adapter, Close failed, the send error stands
C4_Witness ==
    /\ pc = "exited" /\ session # "none" /\ grabber # "none"
    /\ closeReply = "error" /\ error = "ConnectionClosed"

\* C5: the queue never holds more than 2 frames; the frame given to the
\* latest push() is the newest frame of the queue (the insert was not
\* rejected); after 2 or more pushes with no removal in between the queue is
\* exactly the last 2 frames pushed, in push order.
C5_LatestWins ==
    /\ Len(queue) <= 2
    /\ run # <<>> => (queue # <<>> /\ queue[Len(queue)] = run[Len(run)])
    /\ Len(run) >= 2 => queue = SubSeq(run, Len(run) - 1, Len(run))

\* three pushes in a row: the first frame has been evicted
C5_Witness == Len(run) >= 3 /\ Len(queue) = 2 /\ run[1] \notin Range(queue)

\* C6: the frames get_frame has returned are in strictly increasing
\* production order (none twice, none after a later one).
C6_DeliveryOrder ==
    \A i, j \in 1..Len(delivered) : i < j => delivered[i] < delivered[j]

\* two frames delivered with an evicted frame between them
C6_Witness ==
    /\ Len(delivered) >= 2
    /\ delivered[2] > delivered[1] + 1

\* C7: every transport failure, in every variant, puts the streamer into the
\* 2-second wait before a new connection attempt, with no exception left
\* propagating.
C7_ReconnectAlways ==
    [][failures' > failures =>
          (pc' = "sleep" /\ elapsed' = 0 /\ error' = "none")]_vars

\* C8: a send failure leaves the process running in the 2-second wait; a
\* connection attempt after a failure begins only when 2 seconds have
\* passed; the session connected after a failure starts with sent = 0.
C8_ReconnectTiming ==
    [][/\ (pc = "send" /\ failures' > failures) =>
              (pc' \notin Ended /\ error' = "none")
       /\ (connects' > connects /\ failures > 0) => elapsed >= ReconnectDelay
       /\ (wsOpen' /\ ~wsOpen /\ failures > 0) => sent' = 0]_vars

\* a TimeoutError that is propagating was raised by a negotiation step
C9_state == error = "TimeoutError" => \E k \in 1..4 : outcome[k] = "timeout"

\* the step in which get_frame returns None
C9_step ==
    (frame' = NoFrame /\ frame # NoFrame) =>
        /\ pc = "get_frame" /\ pc' = "get_frame"
        /\ wsOpen /\ wsOpen'
        /\ running' /\ pipeline' = "PLAYING"
        /\ error' = "none"
        /\ closeCalls' = 0 /\ stops' = 0
        /\ messages' = messages /\ connects' = connects

\* C9: a TimeoutError only ever comes from a negotiation step, never from
\* get_frame; the step in which get_frame returns None leaves the loop at
\* get_frame with the websocket open, the pipeline playing, no exception,
\* no teardown and nothing sent.
C9_TimeoutIsSoft == []C9_state /\ [][C9_step]_vars

\* get_frame returned None after frames had been sent; still streaming
C9_Witness ==
    /\ frame = NoFrame /\ pc = "get_frame" /\ wsOpen /\ running
    /\ Len(messages) >= 1

\* the frame in hand whose encode failed is neither sent nor being sent
C10_state ==
    (frame > 0 /\ ~ok) => (frame \notin Range(messages) /\ pc # "send")

\* the step in which a new frame is obtained and its encode fails
C10_step ==
    (frame' > 0 /\ frame' # frame /\ ~ok') =>
        /\ messages' = messages
        /\ wsOpen /\ wsOpen'
        /\ connects' = connects /\ failures' = failures
        /\ error' = "none"
        /\ pc' \in {"get_frame", "capture", "pace"}

\* C10: a frame whose encode failed is not a message and is not being sent;
\* the step in which the encode fails sends nothing, keeps the websocket
\* open, begins no connection attempt, counts no failure and goes on to the
\* next frame (Linux, macOS and Windows loops).
C10_EncodeSkip == []C10_state /\ [][C10_step]_vars

\* an encode failed on a connection that had already carried a message
C10_Witness ==
    /\ frame > 0 /\ ~ok /\ wsOpen /\ Len(messages) >= 1
    /\ pc \in {"get_frame", "capture", "pace"}

\* ------------------------------------------------------------------ C11
\* the scale min(maxw/w, maxh/h, 1.0) of the call, as a real number, is
\* not below 1.0
ScaleNotBelowOne == fn_in.maxw >= fn_in.w /\ fn_in.maxh >= fn_in.h
\* the call returned a frame (it did not raise)
ReturnedFrame == pc = "resized" /\ fn_out.kind # "cv2.error"

\* C11: for every frame size and every maximum, the frame the resize step
\* returns is no wider and no higher than the frame it was given, and it is
\* the very frame it was given exactly when min(maxw/w, maxh/h, 1.0) is not
\* below 1.0.
C11_NeverEnlarges ==
    ReturnedFrame =>
        /\ fn_out.w <= fn_in.w
        /\ fn_out.h <= fn_in.h
        /\ (fn_out.kind = "same") <=> ScaleNotBelowOne

\* ------------------------------------------------------------------ C12
\* floor of the exact product of a side with the scale min(maxw/w, maxh/h)
Scaled(side) ==
    IF fn_in.maxw * fn_in.h <= fn_in.maxh * fn_in.w
    THEN (side * fn_in.maxw) \div fn_in.w
    ELSE (side * fn_in.maxh) \div fn_in.h

\* C12: for every frame size and every maximum the resize step yields a
\* frame within maxw x maxh, with both sides at least 1 and each side the
\* truncated product of the original side with the one scale factor; a
\* 1920x1080 frame with maxw=1280, maxh=720 becomes 1280x720.
C12_WithinMax ==
    pc = "resized" =>
        /\ fn_out.kind # "cv2.error"
        /\ fn_out.w <= fn_in.maxw /\ fn_out.h <= fn_in.maxh
        /\ fn_out.w >= 1 /\ fn_out.h >= 1
        /\ fn_out.kind = "resized" =>
              fn_out.w = Scaled(fn_in.w) /\ fn_out.h = Scaled(fn_in.h)
        /\ fn_in = [w |-> 1920, h |-> 1080, maxw |-> 1280, maxh |-> 720] =>
              fn_out.w = 1280 /\ fn_out.h = 720

\* ------------------------------------------------------------------ C13
\* stop() can be called whatever start() did or did not do
C13_state ==
    pc \in {"adapter", "start_failed", "started", "stopped"}
        /\ stops < MaxStops
    => ENABLED adapter_stop
\* a stop() call returns without an exception and leaves the flag false and
\* nothing playing or looping; a stop() right after a stop() changes nothing
C13_step ==
    stops' = stops + 1 =>
        /\ pc' = "stopped" /\ error' = error
        /\ running' = FALSE
        /\ pipeline' # "PLAYING" /\ glib_loop' # "running"
        /\ pc = "stopped" =>
              UNCHANGED <<running, pipeline, glib_loop, eos, produced,
                          scheduled, queue>>
\* C13: stop() on a pipeline adapter is idempotent and never raises: a second
\* call leaves the state of the first, and a call on an adapter whose start()
\* was never called or failed part-way completes and leaves the running flag
\* false.
C13_StopIdempotent == []C13_state /\ [][C13_step]_vars
\* stop() was called twice on an adapter whose start() failed for want of
\* the appsink
C13_Witness ==
    /\ pc = "stopped" /\ stops >= 2
    /\ pipeline = "NULL" /\ glib_loop = "none" /\ ~running

\* ------------------------------------------------------------------ C14
\* C14: once stop() has been called on an adapter instance, no later call on
\* it, start() included, makes it Playing again (running flag true with a
\* playing pipeline).
C14_StoppedIsTerminal == stops >= 1 => ~(running /\ pipeline = "PLAYING")

\* ------------------------------------------------------------------ C15
\* connect() has run and fell back to the bus without descriptor passing
FellBack == step >= 1 /\ ~fd_passing_enabled
\* after the fallback OpenPipeWireRemote is not among the calls issued, no
\* adapter is ever made, and a negotiation whose Start step succeeded has
\* ended with the descriptor-passing error
C15_state ==
    FellBack =>
        /\ "OpenPipeWireRemote" \notin Range(calls)
        /\ step <= 3
        /\ grabber = "none"
        /\ outcome[3] = "ok" => outcome[4] = "no_fd_passing" /\ pc \in Ended
\* what connect() found stays as it is, and the step that ends the
\* negotiation for want of descriptor passing raises the error
C15_step ==
    /\ step >= 1 => fd_passing_enabled' = fd_passing_enabled
    /\ outcome'[4] = "no_fd_passing" /\ outcome[4] # "no_fd_passing" =>
          error' = "RuntimeError" /\ ~fd_passing_enabled
\* C15: when the bus connection fell back to the mode without descriptor
\* passing, the negotiation fails with the descriptor-passing-unsupported
\* error and OpenPipeWireRemote is never issued on the bus; the capability is
\* set once, in connect(), and never changed afterwards.
C15_FdFallback == []C15_state /\ [][C15_step]_vars
\* the three steps before OpenPipeWireRemote were granted on a bus without
\* descriptor passing
C15_Witness ==
    /\ FellBack
    /\ calls = <<"CreateSession", "SelectSources", "Start">>
    /\ outcome[3] = "ok" /\ outcome[4] = "no_fd_passing"

\* ------------------------------------------------------------------ C16
\* a sample is ready on the playing pipeline
SampleReady ==
    platform = "linux" /\ pipeline = "PLAYING" /\ ~eos
        /\ produced < MaxFrames
\* whatever the queue holds and wherever the consumer is, the callback can
\* run to its return
C16_state == SampleReady => ENABLED _on_new_sample
\* a callback step leaves the queue alone and at most schedules one push();
\* the queue changes only in a step of the event loop: a scheduled push()
\* or the consumer's get
C16_step ==
    platform = "linux" =>
        /\ produced' # produced \/ eos' # eos =>
              /\ queue' = queue
              /\ scheduled' \in {scheduled, Append(scheduled, produced')}
              /\ pc' = pc
        /\ queue' # queue =>
              /\ produced' = produced /\ eos' = eos
              /\ \/ scheduled # <<>> /\ scheduled' = Tail(scheduled)
                 \/ pc = "get_frame" /\ delivered' # delivered
\* C16: the frame callback on the pipeline thread never waits for the
\* consumer: whatever the queue holds and whether or not the consumer is
\* reading, it returns after scheduling the enqueue, and the queue is only
\* ever modified on the consumer's event loop, never by the pipeline thread.
C16_CallbackNeverWaits == []C16_state /\ [][C16_step]_vars
\* the queue is full, the consumer has taken nothing from it yet, and the
\* callback has scheduled the push() of one more frame
C16_Witness ==
    /\ Len(queue) = QueueMaxSize /\ delivered = <<>>
    /\ scheduled = <<produced>>
    /\ \A i \in 1..Len(queue) : queue[i] < produced

\* ------------------------------------------------------------------ C17
\* a future that is done keeps its result until the wait returns it, and the
\* Response signal that finds it done changes nothing and raises nothing
C17_step ==
    /\ fut.state = "done" =>
          \/ fut' = fut
          \/ /\ fut' = NoFut
             /\ \/ pc' \in Ended
                \/ /\ resp'[step].response = fut.response
                   /\ resp'[step].results = fut.results
                   /\ resp'[step].path = fut.path
    /\ dropped' /\ ~dropped =>
          fut' = fut /\ error' = error /\ pc' = pc /\ resp' = resp
    /\ fut.state = "pending" /\ fut'.state = "done" =>
          handlers # {} /\ pc' = pc /\ error' = error
\* C17: a pending request is resolved at most once, by the first Response
\* signal it accepts: a further Response signal that arrives before the wait
\* returns leaves the stored result as it is and raises no error.
C17_ResolvedOnce == [][C17_step]_vars
\* a second Response signal has reached the handler of the CreateSession
\* wait, whose future was already done and has not been returned yet
C17_Witness == dropped /\ step = 1 /\ fut.state = "done" /\ pc = "wait"

\* ------------------------------------------------------------------ C18
\* C18: at every point of a negotiation at most one response handler is
\* registered on the bus, and once a wait has returned, by a result, a
\* timeout or a cancellation, its handler is gone: between the steps and
\* after the negotiation no handler is registered.
C18_OneHandler ==
    /\ Cardinality(handlers) <= 1
    /\ handlers # {} => handlers = {step} /\ pc = "wait"
    /\ pc # "wait" => handlers = {}
\* the SelectSources wait ended by its timeout after the CreateSession wait
\* had returned a result
C18_Witness ==
    /\ outcome[1] = "ok" /\ outcome[2] = "timeout"
    /\ handlers = {} /\ pc \in Ended

\* ------------------------------------------------------------------ C19
\* the scheme the claim gives for a base with one of the four schemes
ws_scheme(scheme) ==
    CASE scheme = HTTPS -> WSS
      [] scheme = HTTP -> WS
      [] scheme = WS -> WS
      [] scheme = WSS -> WSS
\* what follows the base in every URL
Suffix == INGEST \o fn_in.room \o PLAYER \o fn_in.player
EndsWith(s, t) ==
    Len(s) >= Len(t) /\ SubSeq(s, Len(s) - Len(t) + 1, Len(s)) = t
NegotiationFailed ==
    \/ \E k \in 1..4 : outcome[k] \notin {"none", "ok"}
    \/ outcome[4] = "ok" /\ glib_loop = "none"
\* the process was interrupted
Interrupted == error = "CancelledError"
\* C20: the streamer process ends with a non-zero exit status when the
\* negotiation fails unrecoverably, and in every other case it keeps running
\* until it is interrupted.
C20_ExitStatus ==
    platform = "linux" /\ pc = "exited" =>
        /\ NegotiationFailed => exit_status # 0
        /\ ~NegotiationFailed => Interrupted

\* ------------------------------------------------------------------ C21
\* stop() is between its first statement and its return
Stopping == pc \in {"stop_pipeline", "stop_loop"}
\* the step is one new-sample callback, which leaves the caller where it is
CallbackStep == pc' = pc /\ (eos' # eos \/ produced' # produced)
\* the flag is false from the first statement of stop() until it returns, and
\* the pipeline is torn down before the loop statement is reached
C21_state ==
    /\ Stopping => ~running
    /\ pc = "stop_loop" => pipeline \in {"none", "NULL"}
\* the pipeline is torn down only with the flag false, the loop is quit only
\* with the pipeline torn down, and a callback that begins once stop() has
\* begun answers end-of-stream and schedules and enqueues nothing
C21_step ==
    /\ pipeline' = "NULL" /\ pipeline # "NULL" => ~running
    /\ glib_loop' = "quit" /\ glib_loop # "quit" =>
          ~running /\ pipeline \in {"none", "NULL"}
    /\ (Stopping \/ pc = "stopped") /\ CallbackStep =>
          /\ eos' /\ ~running
          /\ UNCHANGED <<scheduled, queue, produced>>
\* C21: stop() performs its three actions in the order running flag set to
\* false, then pipeline torn down, then worker loop quit, so that every frame
\* callback that begins after stop() has started sees the flag false,
\* enqueues nothing and returns end-of-stream.
C21_StopOrder == []C21_state /\ [][C21_step]_vars
\* a started adapter that handled a sample is in its first stop(): a callback
\* that began after the flag statement was answered end-of-stream, the
\* pipeline is torn down and the loop not yet quit
C21_Witness ==
    /\ pc = "stop_loop" /\ stops = 1 /\ produced >= 1 /\ eos
    /\ pipeline = "NULL" /\ glib_loop = "running"

\* ------------------------------------------------------------------ C22
\* C22: after stop() has returned, the frame queue never receives another
\* frame: no callback that was already running and no enqueue that was
\* already scheduled on the consumer's scheduler adds a frame once stop() is
\* complete.
C22_NoEnqueueAfterStop == [][stops >= 1 => queue' = queue]_vars

\* ------------------------------------------------------------------ C23
\* C23: from the moment start() puts the pipeline into the playing state
\* until stop() is called, every frame callback that maps its buffer
\* successfully schedules its frame for enqueue: no callback in that interval
\* is answered with end-of-stream because the running flag is still false.
C23_NoEosBeforeStop ==
    [][pipeline = "PLAYING" /\ stops = 0 /\ CallbackStep => ~eos']_vars

\* ------------------------------------------------------------------ C24
\* C24: for every negotiation step, a Response signal with code 0 that the
\* portal emits on the step's request path at any time after the call was
\* issued is received by the step, which then completes successfully; a
\* signal delivered between the return of the call and the registration of
\* the handler is not lost.
C24_NoSignalLost == \A k \in early : outcome[k] # "timeout"

\* ------------------------------------------------------------------ C25
\* a step that ended without a descriptor in hand left no adapter and no
\* pipeline behind, ended the run with an error and closed the session once;
\* the reply without descriptors is such an end, reached with every earlier
\* step granted
C25_state ==
    /\ platform = "linux" /\ outcome[4] # "none" /\ pw_fd = "none" =>
          /\ grabber = "none" /\ pipeline = "none" /\ stops = 0
          /\ pc \in Ended /\ error # "none" /\ closeCalls = 1
          /\ outcome[4] \in {"no_fds", "error", "timeout", "no_fd_passing"}
    /\ outcome[4] = "no_fds" =>
          /\ pw_fd = "none"
          /\ \A k \in 1..3 : outcome[k] = "ok" /\ resp[k].response = 0
\* the reply without descriptors raises the RuntimeError of line 227 inside
\* the try block: the finally block issues Session.Close
C25_step ==
    outcome'[4] = "no_fds" /\ outcome[4] # "no_fds" =>
        /\ error' = "RuntimeError"
        /\ pc' = "closing"
        /\ closeCalls' = closeCalls + 1
        /\ "OpenPipeWireRemote" = calls[Len(calls)]
\* C25: when the OpenPipeWireRemote reply carries no transferred descriptor,
\* the negotiation fails with the descriptor-passing error (not with a
\* denial), no pipeline adapter is created, and the session is closed.
C25_NoDescriptor == []C25_state /\ [][C25_step]_vars
\* the run is over after a reply without descriptors: RuntimeError, the
\* session closed, nothing created
C25_Witness ==
    /\ pc = "exited" /\ outcome[4] = "no_fds" /\ error = "RuntimeError"
    /\ closeCalls = 1 /\ grabber = "none" /\ session = "s1"

\* ------------------------------------------------------------------ C26
\* C26: the descriptor obtained from OpenPipeWireRemote is owned by the
\* pipeline adapter and is released (closed) by the time the adapter has been
\* stopped; it is not left open after stop() on any teardown path.
C26_DescriptorReleased == stops >= 1 => pw_fd # "open"

\* ------------------------------------------------------------------ C27
\* positions of event e in the sequence q
At(q, e) == {i \in DOMAIN q : q[i] = e}
\* the buffer was mapped at most once, and a mapped buffer is unmapped once,
\* after the map and before a frame is handed to the event loop
Unmapped(q) ==
    /\ Cardinality(At(q, "map")) <= 1
    /\ Cardinality(At(q, "unmap")) = Cardinality(At(q, "map"))
    /\ \A i \in At(q, "map") : \E j \in At(q, "unmap") : i < j
    /\ \A i \in At(q, "call_soon") : \A j \in At(q, "unmap") : j < i
\* C27: in the frame callback every buffer that was mapped is unmapped
\* before the callback returns, on every path including a failure while
\* copying, and the frame handed to the queue is a copy that shares no memory
\* with the pipeline's buffer.
C27_BufferUnmapped ==
    pc = "returned" =>
        /\ Unmapped(fn_out.events)
        /\ fn_in.running /\ fn_in.sample /\ fn_in.map_ok
              <=> At(fn_out.events, "map") # {}
        /\ fn_out.ret = "ValueError" =>
              fn_out.events = <<"pull", "map", "unmap">>
        /\ At(fn_out.events, "call_soon") # {} <=> fn_out.frame.kind = "array"
        /\ fn_out.frame.kind = "array" =>
              /\ fn_out.frame.mem = "own"
              /\ fn_out.frame.shape = <<fn_in.height, fn_in.width, 3>>
              /\ fn_in.padding = 0
\* the buffer's rows are padded: reshape raised inside the try block and the
\* buffer was unmapped all the same
C27_Witness ==
    /\ pc = "returned" /\ fn_in.padding = 1 /\ fn_in.width = 2
    /\ fn_out.ret = "ValueError"
    /\ fn_out.events = <<"pull", "map", "unmap">>

\* ------------------------------------------------------------------ C28
\* a size the client can use: a list of at least two integers
SizeWellFormed(p) ==
    p.kind = "list" /\ Len(p.items) >= 2
        /\ \A i \in 1..2 : p.items[i].t = "int"
\* a framerate the client can use: a list of two integers
FramerateWellFormed(p) ==
    p.kind = "list" /\ Len(p.items) = 2
        /\ \A i \in 1..2 : p.items[i].t = "int"
\* C28: from a successful Start response the client uses the first listed
\* stream: its node id, and its width, height and framerate taken from the
\* stream's properties, with width and height 0 and framerate unset when the
\* property is absent or malformed; an empty or missing stream list makes
\* Start fail.
C28_FirstStream ==
    pc = "streams_returned" =>
        IF ~fn_in.has_streams \/ fn_in.streams = <<>>
        THEN fn_out.kind = "RuntimeError"
        ELSE LET first == fn_in.streams[1]
                 s == fn_out.out[1]
             IN  /\ fn_out.kind = "ok"
                 /\ s.node_id = first.node_id
                 /\ IF SizeWellFormed(first.size)
                       THEN /\ s.width = first.size.items[1].v
                            /\ s.height = first.size.items[2].v
                       ELSE s.width = 0 /\ s.height = 0
                 /\ IF FramerateWellFormed(first.framerate)
                       THEN s.framerate = <<first.framerate.items[1].v,
                                            first.framerate.items[2].v>>
                       ELSE s.framerate = <<>>

\* ------------------------------------------------------------------ C29
\* no frame is a message twice, every message is a frame the source gave,
\* and where the loop keeps a counter (Linux, Windows) it is the number of
\* messages the websocket has accepted
C29_state ==
    /\ \A i, j \in DOMAIN messages : messages[i] = messages[j] => i = j
    /\ \A i \in DOMAIN messages : messages[i] \in 1..produced
    /\ platform = "linux" => Range(messages) \subseteq Range(delivered)
    /\ platform \in {"linux", "windows"} => sent = Len(messages)
\* a message is added only by a completed send of the frame in hand, whose
\* encode succeeded, and the counter moves with that step and no other
C29_step ==
    /\ messages' # messages =>
          /\ pc = "send" /\ ok /\ wsOpen /\ frame > 0
          /\ messages' = Append(messages, frame)
          /\ platform \in {"linux", "windows"} => sent' = sent + 1
    /\ sent' # sent => messages' # messages
\* C29: in a connected session each frame obtained from the source produces
\* at most one binary message, a message is sent only for a frame whose
\* encode succeeded, and the sent-frames counter always equals the number of
\* sends completed in that session.
C29_OneMessagePerFrame == []C29_state /\ [][C29_step]_vars
\* three frames were obtained on Linux; two were sent and counted, the encode
\* of the other failed
C29_Witness ==
    /\ platform = "linux" /\ wsOpen /\ pc = "get_frame"
    /\ Len(delivered) = 3 /\ Len(messages) = 2 /\ sent = 2

\* ------------------------------------------------------------------ C30
\* C30: while a session is connected, one diagnostic line is emitted for
\* every 5 seconds of elapsed wall-clock time whether or not frames are
\* arriving or being sent, including while the frame source keeps timing
\* out: at the top of the loop the last line (or the connection) is never
\* further back than 5 seconds and one pacing sleep.
C30_LineEveryPeriod ==
    pc = "streaming" => since_stats <= StatsPeriod + MaxPace

\* ------------------------------------------------------------------ C31
\* C31: with a pull source (macOS, Windows) the loop performs its pacing
\* sleep for the remainder of 1/fps after each send and only after a send,
\* before capturing the next frame; with the push source (Linux portal) the
\* loop never performs a pacing sleep.
C31_PacingAfterSend ==
    [][/\ pc' = "pace" /\ pc # "pace" =>
             /\ platform \in {"mac", "windows"}
             /\ pc = "send" /\ messages' = Append(messages, frame)
       /\ pc = "pace" /\ pc' # "pace" => pc' \in {"capture", "exited"}
       /\ platform = "linux" => pc' # "pace"]_vars

\* ---- C32
\* the player scores a list of raw scores holds: those that convert
PlayerValues(raws) ==
    {clean_player_score(raws[i]).v :
        i \in {j \in DOMAIN raws : clean_player_score(raws[j]).kind = "ok"}}
\* the largest of a set of scores, 0 for none above 0
Largest(S) == IF \E v \in S : v > 0
                 THEN CHOOSE v \in S : \A w \in S : w <= v
                 ELSE 0
\* the best score of a game_end: the maximum of its own list if that list
\* is not empty, otherwise the maximum of what current_scores accumulated
BestOf(msg) ==
    IF msg.scores # <<>> THEN Largest(PlayerValues(raw_scores(msg.scores)))
    ELSE Largest(PlayerValues(stored_scores(game_session_data[msg.rom])))
\* on_message handles msg, a game_end that passes every test
AcceptsGameEnd(msg) ==
    /\ tray = "running" /\ connected
    /\ msg.type = "game_end"
    /\ ~is_stale(msg, ws_connected_at)
    /\ ~game_end_refused(msg)
    /\ handle(msg)
\* C32: in automatic mode an accepted game_end calls send_score exactly once
\* when its best score is above 0 and not at all otherwise; the best score
\* is the maximum of the message's own list if that is not empty, otherwise
\* the maximum of the accumulated scores of the ROM; afterwards the
\* accumulated data of the ROM is gone.
C32_OneSendPerGameEnd ==
    [][\A msg \in Plain :
          AcceptsGameEnd(msg) /\ SEND_MODE = "automatic" =>
             /\ IF BestOf(msg) > 0
                   THEN /\ sends' = sends + 1
                        /\ last_call' = [rom |-> msg.rom,
                                         score |-> BestOf(msg),
                                         by |-> "game_end"]
                   ELSE UNCHANGED callVars
             /\ game_session_data'[msg.rom] = NoData]_vars
\* a game_end whose list was <<"1,2", "07">> has sent 12 and the data is gone
C32_Witness ==
    /\ SEND_MODE = "automatic"
    /\ last_call = [rom |-> "afm", score |-> 12, by |-> "game_end"]
    /\ game_session_data["afm"] = NoData

\* ---- C33
\* on_message handles msg, which is not stale
Handles(msg) ==
    /\ tray = "running" /\ connected
    /\ ~is_stale(msg, ws_connected_at)
    /\ handle(msg)
\* the ROM had an accepted game_end less than 10 seconds ago and no
\* table_loaded or game_start since
InWindow(rom) ==
    /\ last_game_end[rom] # 0
    /\ now - last_game_end[rom] < DebounceSeconds
\* a table_loaded or game_start clears the debounce and the accumulated
\* scores of its ROM, and a game_end for a ROM whose debounce is clear is
\* accepted: it arms the debounce
ClearedByStart(msg) ==
    /\ msg.type \in {"table_loaded", "game_start"} /\ Handles(msg) =>
          /\ last_game_end'[msg.rom] = 0
          /\ stored_scores(game_session_data'[msg.rom]) = <<>>
    /\ /\ msg.type = "game_end" /\ Handles(msg)
       /\ last_game_end[msg.rom] = 0
       /\ msg.reason # "plugin_unload"
       /\ msg.game_duration \notin 0 .. MIN_GAME_DURATION_SEC - 1
       => last_game_end'[msg.rom] = now
\* C33 as stated: a game_end for a ROM less than 10 seconds after the
\* previous accepted game_end for it, with no table_loaded or game_start for
\* it in between, sends nothing and changes no state; a table_loaded or
\* game_start clears the debounce and the accumulated scores, so the next
\* game_end for the ROM is accepted.
C33_DebouncedGameEndInert ==
    [][\A msg \in Plain :
          /\ msg.type = "game_end" /\ InWindow(msg.rom) /\ Handles(msg)
                => UNCHANGED <<sessionVars, lastVars, callVars>>
          /\ ClearedByStart(msg)]_vars
\* C33, amended: the same for a game_end whose reason is not plugin_unload;
\* a plugin_unload game_end inside the window sends nothing and leaves the
\* debounce and the last score alone, but removes the accumulated scores.
C33_DebouncedUnlessUnload ==
    [][\A msg \in Plain :
          /\ msg.type = "game_end" /\ InWindow(msg.rom) /\ Handles(msg)
                => /\ UNCHANGED <<last_game_end, lastVars, callVars>>
                   /\ IF msg.reason = "plugin_unload"
                         THEN game_session_data' =
                                 [game_session_data EXCEPT
                                     ![msg.rom] = NoData]
                         ELSE UNCHANGED game_session_data
          /\ ClearedByStart(msg)]_vars
\* "afm" is inside its window with scores accumulated since, and "mm" was
\* started again after its game_end was sent
C33_Witness ==
    /\ InWindow("afm")
    /\ stored_scores(game_session_data["afm"]) # <<>>
    /\ last_call.rom = "mm"
    /\ last_game_end["mm"] = 0 /\ game_session_data["mm"].present

\* ---- C34
\* C34: a game_end whose reason is plugin_unload, or whose reported
\* duration is below 60 seconds, never sends a score, never stores a last
\* score and never arms the debounce of its ROM.
C34_UnloadAndShortGamesInert ==
    [][\A msg \in Plain :
          /\ msg.type = "game_end"
          /\ \/ msg.reason = "plugin_unload"
             \/ msg.game_duration \in 0 .. MIN_GAME_DURATION_SEC - 1
          /\ tray = "running" /\ connected /\ handle(msg)
          => UNCHANGED <<callVars, lastVars, last_game_end>>]_vars
\* a plugin_unload game_end has removed the scores that current_scores
\* stored in manual mode: nothing was sent and the debounce is not armed
C34_Witness ==
    /\ game_session_data["afm"] = NoData
    /\ last_game_end["afm"] = 0
    /\ _last_score_rom = "afm"
    /\ sends = 0

\* ---- C35
\* C35: in manual mode no score message calls send_score; send_score is
\* started only by a hotkey press, and only when a last score with a ROM
\* name and a value above 0 is stored; otherwise the press submits nothing.
C35_ManualSendsOnlyOnHotkey ==
    [][/\ \A msg \in Plain :
             /\ SEND_MODE = "manual"
             /\ tray = "running" /\ connected /\ handle(msg)
             => UNCHANGED callVars
       /\ SEND_MODE = "manual" /\ callVars' # callVars =>
             /\ listeners > 0
             /\ _last_score_rom # None /\ _last_score_value > 0
             /\ sends' = sends + 1
             /\ last_call' = [rom |-> _last_score_rom,
                              score |-> _last_score_value,
                              by |-> "hotkey"]
             /\ UNCHANGED <<sessionVars, lastVars>>
       /\ notices' # notices =>
             /\ _last_score_rom = None \/ _last_score_value <= 0
             /\ UNCHANGED callVars]_vars
\* in manual mode one press found no score and another one submitted the
\* score that a game_end had stored without sending it
C35_Witness ==
    /\ SEND_MODE = "manual"
    /\ notices
    /\ last_call.by = "hotkey"
    /\ last_game_end[last_call.rom] # 0

\* ---- C37
\* C37: once the __main__ block has reached app.exec(), whatever
\* set_send_mode calls follow, a hotkey listener is running if and only if
\* the send mode is manual; never is more than one listener running.
C37_ListenerIffManual ==
    /\ listeners <= 1
    /\ tray = "running" => (listeners > 0 <=> SEND_MODE = "manual")
    /\ tray = "running" => (_hotkey_listener <=> listeners > 0)
\* manual mode with its listener, entered from automatic mode in which a
\* game_end was sent
C37_Witness ==
    /\ tray = "running"
    /\ SEND_MODE = "manual" /\ listeners = 1
    /\ last_call.by = "game_end"

\* ---- C38
\* C38: a message whose timestamp is earlier than the time the websocket
\* connected is ignored whatever its type: no session data, no debounce
\* time and no last score changes, and nothing is sent.
C38_StaleMessagesIgnored ==
    [][\A msg \in Stamped(ws_connected_at, now) :
          /\ msg.timestamp.present
          /\ msg.timestamp.time < ws_connected_at
          /\ tray = "running" /\ connected /\ handle(msg)
          => UNCHANGED <<sessionVars, lastVars, callVars>>]_vars

\* ---- C36
\* C36: under any interleaving of the websocket thread writing the last
\* score and the hotkey thread reading it, the pair _get_last_score returns
\* was written by one _set_last_score call (or is the initial pair): the
\* ROM of one write is never combined with the score of another.
C36_PairReadWasWritten ==
    getter.pc = "returned" =>
        <<getter.rom, getter.score>> \in written \cup {<<None, 0>>}
\* the pair of the second write was read while a third write, of another
\* ROM and another score, waits for the lock or has just taken it
C36_Witness ==
    /\ getter.pc = "returned"
    /\ <<getter.rom, getter.score>> = <<"mm", 12>>
    /\ <<"afm", 7>> \in written
    /\ setter.pc \in {"acquire", "rom"}
    /\ setter.rom = "afm" /\ setter.score = 7

\* ---- C39
\* C39: send_score makes no request and shows no notification when the
\* cleaned score is 0, negative or unparseable, or when the API URL or the
\* API key is not configured; a request that fails or an answer without
\* success is logged as an error and never raised to the caller.
C39_SendScoreGuardsAndCatches ==
    pc = "score_sent" =>
        /\ clean_score(fn_in.score) <= 0 =>
              fn_out.requests = 0 /\ fn_out.notifications = 0
        /\ fn_in.API_URL = <<>> \/ fn_in.API_KEY = <<>> =>
              fn_out.requests = 0 /\ fn_out.notifications = 0
        /\ fn_out.requests = 1 /\ fn_in.outcome # "success" =>
              fn_out.errors = 1 /\ fn_out.notifications = 0
        /\ ~fn_out.raised
\* the score 007 was posted and the request failed: one error logged
C39_Witness ==
    /\ pc = "score_sent"
    /\ fn_in.score = <<"0", "0", "7">>
    /\ fn_in.outcome = "ConnectionError"
    /\ fn_out.requests = 1 /\ fn_out.errors = 1
====
